---- MODULE Spec2Model ----
(***************************************************************************)
(* A model of gptfunctionutil: the converter registry, command descriptors *)
(* built by the AILibFunction decorator, library instances and the call    *)
(* parser / dispatcher of GPTFunctionLibrary.                              *)
(*                                                                         *)
(* Text is modelled as a sequence of one-character strings, so that the    *)
(* argument repair and the JSON decoding act on characters as the code     *)
(* does.  Positions inside the decoder are 1-based; an error position is   *)
(* reported 0-based, as json.JSONDecodeError.pos is.                       *)
(***************************************************************************)
EXTENDS Integers, Sequences, FiniteSets, Bags, TLC

(***************************************************************************)
(* JSON values.  Every value carries all fields so that values of          *)
(* different kinds can be compared: t is the kind, s the text of a string, *)
(* n the number, b the boolean, o the mapping of an object.                *)
(***************************************************************************)
EmptyMap == [k \in {} |-> 0]

JStr(s) == [t |-> "str", s |-> s, n |-> 0, b |-> FALSE, o |-> EmptyMap]

JInt(n) == [t |-> "int", s |-> <<>>, n |-> n, b |-> FALSE, o |-> EmptyMap]

JBool(b) == [t |-> "bool", s |-> <<>>, n |-> 0, b |-> b, o |-> EmptyMap]

JNull == [t |-> "null", s |-> <<>>, n |-> 0, b |-> FALSE, o |-> EmptyMap]

JObj(o) == [t |-> "obj", s |-> <<>>, n |-> 0, b |-> FALSE, o |-> o]

\* dict[k] = v on a mapping
MapPut(m, k, v) == [x \in DOMAIN m \cup {k} |-> IF x = k THEN v ELSE m[x]]

\* the element of a one-element set; in {e(x) : x \in {v}} the value v
\* is computed once, however often e mentions x
TheOne(S) == CHOOSE x \in S : TRUE

Min(S) == CHOOSE x \in S : \A y \in S : x <= y

(***************************************************************************)
(* Argument-string repair of parse_name_args.                              *)
(***************************************************************************)
\* whitespace the JSON decoder skips between tokens
WS == {" ", "\n", "\t", "\r"}

\* characters matched by \s in the repair pattern: the decoder's blanks and
\* the form feed (the vertical tab and the separators \x1c..\x1f, which \s
\* matches too, have no string literal here and occur in no input)
ReSpace == WS \cup {"\f"}

\* function_args.replace("\\n", "\n")
RECURSIVE ReplaceNewlines(_)
ReplaceNewlines(s) ==
    IF s = <<>> THEN <<>>
    ELSE IF Len(s) >= 2 /\ s[1] = "\\" /\ s[2] = "n"
         THEN <<"\n">> \o ReplaceNewlines(SubSeq(s, 3, Len(s)))
         ELSE <<s[1]>> \o ReplaceNewlines(Tail(s))

\* m.group().replace('"', r"\"")
RECURSIVE EscapeQuotes(_)
EscapeQuotes(s) ==
    IF s = <<>> THEN <<>>
    ELSE IF s[1] = "\"" THEN <<"\\", "\"">> \o EscapeQuotes(Tail(s))
         ELSE <<s[1]>> \o EscapeQuotes(Tail(s))

\* (?<=:\s\") : the three characters before position b
LookBehind(s, b) ==
    b >= 4 /\ s[b - 3] = ":" /\ s[b - 2] \in ReSpace /\ s[b - 1] = "\""

\* (?=\"(?:,|\s*\})) : a quote at e followed by a comma or by blanks and }
LookAhead(s, e) ==
    /\ e <= Len(s)
    /\ s[e] = "\""
    /\ \/ (e + 1 <= Len(s) /\ s[e + 1] = ",")
       \/ \E j \in (e + 1)..Len(s) :
            s[j] = "}" /\ \A k \in (e + 1)..(j - 1) : s[k] \in ReSpace

\* the ends of (.*?) started at b: no newline inside, at least minlen long
MatchEnds(s, b, minlen) ==
    {e \in (b + minlen)..(Len(s) + 1) :
        LookAhead(s, e) /\ \A k \in b..(e - 1) : s[k] # "\n"}

\* the lazy match at b: the index just after it, 0 when there is none
MatchEnd(s, b, minlen) ==
    IF LookBehind(s, b) /\ MatchEnds(s, b, minlen) # {}
    THEN Min(MatchEnds(s, b, minlen)) ELSE 0

\* re.sub: leftmost non-overlapping matches; after an empty match the next
\* match at the same place has to be non-empty
RECURSIVE SubLoop(_, _, _, _)
SubLoop(s, i, pos, must) ==
    IF pos > Len(s) + 1 THEN SubSeq(s, i, Len(s))
    ELSE LET e == MatchEnd(s, pos, IF must THEN 1 ELSE 0) IN
         IF e = 0 THEN SubLoop(s, i, pos + 1, FALSE)
         ELSE SubSeq(s, i, pos - 1) \o EscapeQuotes(SubSeq(s, pos, e - 1))
                 \o SubLoop(s, e, e, e = pos)

QuoteEscapeFix(s) == SubLoop(s, 1, 1, FALSE)

\* do_expression is False in every library the model builds
expression_match(s) == s

(***************************************************************************)
(* json.loads(text, strict=False) for objects, strings, integers, true,    *)
(* false and null.                                                         *)
(***************************************************************************)
Digits == {"0", "1", "2", "3", "4", "5", "6", "7", "8", "9"}

DigitVal(c) ==
    CASE c = "0" -> 0 [] c = "1" -> 1 [] c = "2" -> 2 [] c = "3" -> 3
      [] c = "4" -> 4 [] c = "5" -> 5 [] c = "6" -> 6 [] c = "7" -> 7
      [] c = "8" -> 8 [] c = "9" -> 9

\* the BACKSLASH table of the decoder (without \b and \u)
Escapes == {"\"", "\\", "/", "n", "t", "r", "f"}

Unescape(c) ==
    CASE c = "n" -> "\n" [] c = "t" -> "\t" [] c = "r" -> "\r"
      [] c = "f" -> "\f" [] OTHER -> c

ParseOk(v, end) == [ok |-> TRUE, val |-> v, end |-> end, pos |-> 0]

ParseErr(pos) == [ok |-> FALSE, val |-> JNull, end |-> 0, pos |-> pos]

\* the first index >= i that holds no blank
SkipWS(s, i) ==
    Min({j \in i..(Len(s) + 1) : j > Len(s) \/ s[j] \notin WS})

IsAt(s, i, w) == i + Len(w) - 1 <= Len(s) /\ SubSeq(s, i, i + Len(w) - 1) = w

\* scanstring: begin is the index of the opening quote
RECURSIVE ScanString(_, _, _, _)
ScanString(s, begin, i, acc) ==
    IF i > Len(s) THEN ParseErr(begin - 1)
    ELSE IF s[i] = "\"" THEN ParseOk(JStr(acc), i + 1)
    ELSE IF s[i] = "\\"
         THEN IF i + 1 > Len(s) THEN ParseErr(begin - 1)
              ELSE IF s[i + 1] \in Escapes
                   THEN ScanString(s, begin, i + 2, Append(acc, Unescape(s[i + 1])))
                   ELSE ParseErr(i - 1)
    ELSE ScanString(s, begin, i + 1, Append(acc, s[i]))

\* the digits of (0|[1-9]\d*) starting at i
RECURSIVE DigitsEnd(_, _)
DigitsEnd(s, i) ==
    IF i <= Len(s) /\ s[i] \in Digits THEN DigitsEnd(s, i + 1) ELSE i

RECURSIVE NumVal(_, _, _, _)
NumVal(s, i, end, acc) ==
    IF i >= end THEN acc ELSE NumVal(s, i + 1, end, 10 * acc + DigitVal(s[i]))

ScanNumber(s, i) ==
    LET neg == i <= Len(s) /\ s[i] = "-"
        d   == IF neg THEN i + 1 ELSE i
        e   == IF d <= Len(s) /\ s[d] = "0" THEN d + 1 ELSE DigitsEnd(s, d)
    IN  IF e = d THEN ParseErr(i - 1)
        ELSE ParseOk(JInt(IF neg THEN 0 - NumVal(s, d, e, 0) ELSE NumVal(s, d, e, 0)), e)

RECURSIVE ScanOnce(_, _)
RECURSIVE JSONObject(_, _)
RECURSIVE ObjectPairs(_, _, _)

\* scan_once: the value that starts at i
ScanOnce(s, i) ==
    IF i > Len(s) THEN ParseErr(i - 1)
    ELSE IF s[i] = "\"" THEN ScanString(s, i, i + 1, <<>>)
    ELSE IF s[i] = "{" THEN JSONObject(s, i + 1)
    ELSE IF IsAt(s, i, <<"n", "u", "l", "l">>) THEN ParseOk(JNull, i + 4)
    ELSE IF IsAt(s, i, <<"t", "r", "u", "e">>) THEN ParseOk(JBool(TRUE), i + 4)
    ELSE IF IsAt(s, i, <<"f", "a", "l", "s", "e">>) THEN ParseOk(JBool(FALSE), i + 5)
    ELSE ScanNumber(s, i)

\* JSONObject: i is the index after the opening brace
JSONObject(s, i) ==
    LET j == SkipWS(s, i) IN
    IF j <= Len(s) /\ s[j] = "}" THEN ParseOk(JObj(EmptyMap), j + 1)
    ELSE IF j > Len(s) \/ s[j] # "\"" THEN ParseErr(j - 1)
    ELSE ObjectPairs(s, j + 1, EmptyMap)

\* the loop of JSONObject: i is the index after the opening quote of a key
ObjectPairs(s, i, acc) ==
    LET k == ScanString(s, i - 1, i, <<>>) IN
    IF ~k.ok THEN k
    ELSE LET c == SkipWS(s, k.end) IN
         IF c > Len(s) \/ s[c] # ":" THEN ParseErr(c - 1)
         ELSE LET v == ScanOnce(s, SkipWS(s, c + 1)) IN
              IF ~v.ok THEN v
              ELSE LET d    == SkipWS(s, v.end)
                       acc2 == MapPut(acc, k.val.s, v.val)
                   IN  IF d <= Len(s) /\ s[d] = "}" THEN ParseOk(JObj(acc2), d + 1)
                       ELSE IF d > Len(s) \/ s[d] # "," THEN ParseErr(d - 1)
                       ELSE LET q == SkipWS(s, d + 1) IN
                            IF q > Len(s) \/ s[q] # "\"" THEN ParseErr(q - 1)
                            ELSE ObjectPairs(s, q + 1, acc2)

\* JSONDecoder.decode: one value, blanks around it, nothing after it
json_loads(s) ==
    LET v == ScanOnce(s, SkipWS(s, 1)) IN
    IF ~v.ok THEN v
    ELSE LET e == SkipWS(s, v.end) IN
         IF e # Len(s) + 1 THEN ParseErr(e - 1) ELSE v

(***************************************************************************)
(* Schema fragments and parameter metadata.  Both are mappings from a key  *)
(* to a value; every value carries all fields: w a word (type name,        *)
(* format, description or pattern), n a number, b a boolean, l a list of   *)
(* texts (the values of an enum).                                          *)
(***************************************************************************)
FW(w) == [k |-> "word", w |-> w, n |-> 0, b |-> FALSE, l |-> <<>>]

FN(n) == [k |-> "num", w |-> "", n |-> n, b |-> FALSE, l |-> <<>>]

FB(b) == [k |-> "bool", w |-> "", n |-> 0, b |-> b, l |-> <<>>]

FL(l) == [k |-> "list", w |-> "", n |-> 0, b |-> FALSE, l |-> l]

\* a nested schema {"type": w}, {} when w is empty, and a list of them
FS(w) == [k |-> "schema", w |-> w, n |-> 0, b |-> FALSE, l |-> <<>>]

FSL(l) == [k |-> "schemas", w |-> "", n |-> 0, b |-> FALSE, l |-> l]

\* dict.get(k, default)
MapGet(m, k, default) == IF k \in DOMAIN m THEN m[k] ELSE default

\* dict.update(other)
MapUpdate(m, other) ==
    [x \in DOMAIN m \cup DOMAIN other |-> IF x \in DOMAIN other THEN other[x] ELSE m[x]]

\* copy key k of dec into schema when dec has it
CopyKey(schema, dec, k) == IF k \in DOMAIN dec THEN MapPut(schema, k, dec[k]) ELSE schema

\* the pattern the UserConverter of the tests puts into its fragment
UserPattern == "<@!?(\\d+)>"

(***************************************************************************)
(* Converters: to_schema(param, dec).  A parameter is                      *)
(* [name, annotation |-> [name, is_str, args], default], default being     *)
(* "empty" (none declared), "None" or "value".                             *)
(***************************************************************************)
BooleanConverter_to_schema(param, dec) == ("type" :> FW("boolean"))

StringConverter_to_schema(param, dec) ==
    LET s0 == ("type" :> FW("string"))
        s1 == IF "minLength" \in DOMAIN dec \/ param.default = "None"
              THEN MapPut(s0, "minLength", MapGet(dec, "minLength", FN(0))) ELSE s0
        s2 == IF "maxLength" \in DOMAIN dec \/ param.default = "None"
              THEN MapPut(s1, "maxLength", MapGet(dec, "maxLength", FN(255))) ELSE s1
    IN  CopyKey(s2, dec, "pattern")

NumericConverter_to_schema(param, dec) ==
    LET s5 == CopyKey(CopyKey(CopyKey(CopyKey(CopyKey(EmptyMap, dec, "minimum"),
                  dec, "maximum"), dec, "exclusiveMinimum"), dec, "exclusiveMaximum"),
                  dec, "multipleOf")
    IN  IF ~param.annotation.is_str /\ param.annotation.name = "int"
        THEN MapPut(s5, "type", FW("integer"))
        ELSE MapPut(s5, "type", FW("number"))

\* DatetimeConverter.to_schema: the string fragment with its format
DatetimeConverter_to_schema(param, dec) ==
    MapPut(StringConverter_to_schema(param, dec), "format", FW("date-time"))

\* ArrayConverter._get_type_schema
get_type_schema(item_type) ==
    CASE item_type = "int"   -> FS("integer")
      [] item_type = "float" -> FS("number")
      [] item_type = "str"   -> FS("string")
      [] item_type = "bool"  -> FS("boolean")
      [] OTHER               -> FS("")

\* ArrayConverter.to_schema: List[T] has the origin list and gets items; a
\* subscripted Tuple has the origin tuple, which is not typing.Tuple, so
\* only the bare Tuple gets prefixItems; an annotation without arguments
\* has the element type Any
ArrayConverter_to_schema(param, dec) ==
    LET ann == param.annotation
        s0  == ("type" :> FW("array"))
        s1  == IF ~ann.is_str /\ ann.name \in {"List", "list"}
               THEN MapPut(s0, "items",
                           get_type_schema(IF ann.args = <<>> THEN "Any" ELSE ann.args[1]))
               ELSE IF ~ann.is_str /\ ann.name = "Tuple" /\ ann.args = <<>>
                    THEN MapPut(s0, "prefixItems", FSL(<<get_type_schema("Any").w>>))
                    ELSE s0
    IN  CopyKey(CopyKey(CopyKey(s1, dec, "minItems"), dec, "maxItems"), dec, "uniqueItems")

LiteralConverter_to_schema(param, dec) ==
    MapUpdate(("type" :> FW("string")) @@ ("enum" :> FL(param.annotation.args)), dec)

\* the converter of test_check_converter
UserConverter_to_schema(param, dec) ==
    MapPut(StringConverter_to_schema(param, dec), "pattern", FW(UserPattern))

to_schema(converter, param, dec) ==
    CASE converter = "BooleanConverter" -> BooleanConverter_to_schema(param, dec)
      [] converter = "StringConverter"  -> StringConverter_to_schema(param, dec)
      [] converter = "NumericConverter" -> NumericConverter_to_schema(param, dec)
      [] converter = "LiteralConverter" -> LiteralConverter_to_schema(param, dec)
      [] converter = "DatetimeConverter" -> DatetimeConverter_to_schema(param, dec)
      [] converter = "ArrayConverter"   -> ArrayConverter_to_schema(param, dec)
      [] converter = "UserConverter"    -> UserConverter_to_schema(param, dec)

(***************************************************************************)
(* Converters: from_schema(value, schema).  The result is the converted    *)
(* value or the ValueError the converter raises.                           *)
(***************************************************************************)
Converted(v) == [ok |-> TRUE, val |-> v, msg |-> "", exc |-> ""]

ValueError(msg) == [ok |-> FALSE, val |-> JNull, msg |-> msg, exc |-> "ValueError"]

\* what int % 0 raises
ZeroDivisionError ==
    [ok |-> FALSE, val |-> JNull, msg |-> "integer modulo by zero",
     exc |-> "ZeroDivisionError"]

\* a % b of two ints, b not 0: the remainder has the sign of b
PyMod(a, b) == IF b > 0 THEN a % b ELSE 0 - ((0 - a) % (0 - b))

\* re.match(r'<@!?(\d+)>', value): the index after the digits, 0 for no match
UserMatchFrom(s) == IF Len(s) >= 3 /\ s[3] = "!" THEN 4 ELSE 3

UserMatch(s) ==
    LET d == UserMatchFrom(s)
        e == DigitsEnd(s, d)
    IN  IF Len(s) >= 2 /\ s[1] = "<" /\ s[2] = "@" /\ e > d /\ e <= Len(s) /\ s[e] = ">"
        THEN [ok |-> TRUE, group |-> SubSeq(s, d, e - 1)]
        ELSE [ok |-> FALSE, group |-> <<>>]

\* re.match(schema['pattern'], value) for the patterns the model knows
PatternMatches(pattern, s) == IF pattern = UserPattern THEN UserMatch(s).ok ELSE TRUE

BooleanConverter_from_schema(value, schema) ==
    IF value.t # "bool" THEN ValueError("Value is not of type 'bool'.")
    ELSE Converted(value)

StringConverter_from_schema(value, schema) ==
    IF value.t # "str" THEN ValueError("Value is not of type 'str'.")
    ELSE IF "minLength" \in DOMAIN schema /\ Len(value.s) < schema["minLength"].n
         THEN ValueError("Value does not meet the minLength constraint.")
    ELSE IF "maxLength" \in DOMAIN schema /\ Len(value.s) > schema["maxLength"].n
         THEN ValueError("Value exceeds the maxLength constraint.")
    ELSE IF "pattern" \in DOMAIN schema /\ ~PatternMatches(schema["pattern"].w, value.s)
         THEN ValueError("Value does not match the specified pattern.")
    ELSE Converted(value)

\* a bool is an int for isinstance and for the comparisons
NumOf(value) == IF value.t = "bool" THEN (IF value.b THEN 1 ELSE 0) ELSE value.n

NumericConverter_from_schema(value, schema) ==
    IF value.t \notin {"int", "bool"} THEN ValueError("Value is not of type 'int' or 'float'.")
    ELSE IF "minimum" \in DOMAIN schema /\ NumOf(value) < schema["minimum"].n
         THEN ValueError("Value is below the minimum constraint.")
    ELSE IF "maximum" \in DOMAIN schema /\ NumOf(value) > schema["maximum"].n
         THEN ValueError("Value exceeds the maximum constraint.")
    ELSE IF "exclusiveMinimum" \in DOMAIN schema /\ NumOf(value) <= schema["exclusiveMinimum"].n
         THEN ValueError("Value does not meet the exclusiveMinimum constraint.")
    ELSE IF "exclusiveMaximum" \in DOMAIN schema /\ NumOf(value) >= schema["exclusiveMaximum"].n
         THEN ValueError("Value does not meet the exclusiveMaximum constraint.")
    ELSE IF "multipleOf" \in DOMAIN schema /\ schema["multipleOf"].n = 0
         THEN ZeroDivisionError
    ELSE IF "multipleOf" \in DOMAIN schema /\ PyMod(NumOf(value), schema["multipleOf"].n) # 0
         THEN ValueError("Value does not meet the multipleOf constraint.")
    ELSE Converted(value)

\* schema['enum'] of a schema without that key; the text of a KeyError is
\* the repr of the key
KeyError(key) ==
    [ok |-> FALSE, val |-> JNull, msg |-> "'" \o key \o "'", exc |-> "KeyError"]

\* the message names the rejected value
LiteralConverter_from_schema(value, schema) ==
    IF "enum" \notin DOMAIN schema THEN KeyError("enum")
    ELSE IF value.t = "str" /\ \E i \in 1..Len(schema["enum"].l) : schema["enum"].l[i] = value.s
    THEN Converted(value)
    ELSE ValueError(<<"Value ", value, " does not match any of the literal values.">>)

(***************************************************************************)
(* datetime.strptime(text, "%Y-%m-%dT%H:%M:%S%z").  The format compiles to *)
(* a regular expression of digit fields between literal separators; the   *)
(* fields are then turned into a datetime, whose constructor checks them.  *)
(***************************************************************************)
\* msg holds the parts of the ValueError's message when ok is FALSE
Stamp(ok, year, month, day, hour, minute, second, gmtoff, gmtoff_fraction, msg) ==
    [ok |-> ok, year |-> year, month |-> month, day |-> day, hour |-> hour,
     minute |-> minute, second |-> second, gmtoff |-> gmtoff,
     gmtoff_fraction |-> gmtoff_fraction, msg |-> msg]

NoStamp(msg) == Stamp(FALSE, 0, 0, 0, 0, 0, 0, 0, 0, msg)

\* the text does not match the regular expression of the format; the
\* message shows the repr of the text and of the format
NoMatch(s) ==
    NoStamp(<<"time data ", s, " does not match format ", "'%Y-%m-%dT%H:%M:%S%z'">>)

\* a field of one or two digits from i on: its end, 0 when the digits do
\* not match the alternatives of the directive.  lo2..hi2 are the values a
\* two-digit field may have, lo1 the least value of a one-digit field.
FieldEnd(s, i, lo1, lo2, hi2) ==
    LET e == DigitsEnd(s, i)
        v == NumVal(s, i, e, 0)
    IN  IF e - i = 1 /\ v >= lo1 THEN e
        ELSE IF e - i = 2 /\ v >= lo2 /\ v <= hi2 THEN e
        ELSE 0

\* %d also takes a blank and one digit
DayEnd(s, i) ==
    IF i + 1 <= Len(s) /\ s[i] = " " /\ s[i + 1] \in Digits \ {"0"} THEN i + 2
    ELSE FieldEnd(s, i, 1, 1, 31)

DayStart(s, i) == IF i <= Len(s) /\ s[i] = " " THEN i + 1 ELSE i

IsChar(s, i, chars) == i >= 1 /\ i <= Len(s) /\ s[i] \in chars

\* the digits of the fraction of %z, padded to microseconds
RECURSIVE Pad(_, _)
Pad(v, n) == IF n = 0 THEN v ELSE Pad(10 * v, n - 1)

ZoneResult(end, ok, gmtoff, gmtoff_fraction, msg) ==
    [end |-> end, ok |-> ok, gmtoff |-> gmtoff, gmtoff_fraction |-> gmtoff_fraction,
     msg |-> msg]

\* %z from i on.  The expression matches sign, hours, minutes and optionally
\* seconds and a fraction, each colon optional, or else Z; end is the index
\* after the match, 0 when there is none.  The matched text is then read with
\* colons throughout or nowhere: a colon after the hours only is reported,
\* a colon after the minutes only makes int() read ":" and a digit.
Zone(s, i) ==
    TheOne({
        IF ~k.hm
        THEN IF IsChar(s, i, {"Z"}) THEN ZoneResult(i + 1, TRUE, 0, 0, <<>>)
             ELSE ZoneResult(0, FALSE, 0, 0, <<>>)
        ELSE IF k.hasS /\ k.c1 /\ ~k.c2
             THEN ZoneResult(k.end, FALSE, 0, 0,
                             <<"Inconsistent use of : in ", SubSeq(s, i, k.end - 1)>>)
        ELSE IF k.hasS /\ ~k.c1 /\ k.c2
             THEN ZoneResult(k.end, FALSE, 0, 0,
                             <<"invalid literal for int() with base 10: ",
                               SubSeq(s, k.m + 2, k.m + 3)>>)
        ELSE LET hours   == NumVal(s, i + 1, i + 3, 0)
                 minutes == NumVal(s, k.m, k.m + 2, 0)
                 seconds == IF k.hasS THEN NumVal(s, k.sec, k.sec + 2, 0) ELSE 0
                 frac    == IF k.hasF
                            THEN Pad(NumVal(s, k.sec + 3, k.end, 0), 6 - (k.end - (k.sec + 3)))
                            ELSE 0
                 gmtoff  == hours * 60 * 60 + minutes * 60 + seconds
             IN  IF s[i] = "-"
                 THEN ZoneResult(k.end, TRUE, 0 - gmtoff, 0 - frac, <<>>)
                 ELSE ZoneResult(k.end, TRUE, gmtoff, frac, <<>>)
      : k \in {
        LET c1   == IsChar(s, i + 3, {":"})
            m    == IF c1 THEN i + 4 ELSE i + 3
            hm   == /\ IsChar(s, i, {"+", "-"})
                    /\ IsChar(s, i + 1, Digits) /\ IsChar(s, i + 2, Digits)
                    /\ IsChar(s, m, {"0", "1", "2", "3", "4", "5"})
                    /\ IsChar(s, m + 1, Digits)
            c2   == IsChar(s, m + 2, {":"})
            sec  == IF c2 THEN m + 3 ELSE m + 2
            hasS == /\ IsChar(s, sec, {"0", "1", "2", "3", "4", "5"})
                    /\ IsChar(s, sec + 1, Digits)
            f    == sec + 3
            fe   == DigitsEnd(s, f)
            hasF == hasS /\ IsChar(s, sec + 2, {"."}) /\ fe > f
            end  == IF ~hasS THEN m + 2
                    ELSE IF ~hasF THEN sec + 2
                    ELSE Min({fe, f + 6})
        IN  [hm |-> hm, c1 |-> c1, c2 |-> c2, m |-> m, sec |-> sec, hasS |-> hasS,
             hasF |-> hasF, end |-> end]}})

IsLeap(year) == year % 4 = 0 /\ (year % 100 # 0 \/ year % 400 = 0)

DaysInMonth(year, month) ==
    IF month = 2 THEN (IF IsLeap(year) THEN 29 ELSE 28)
    ELSE IF month \in {4, 6, 9, 11} THEN 30 ELSE 31

\* timedelta(seconds=gmtoff, microseconds=gmtoff_fraction) as its repr shows
\* it: days of either sign, seconds and microseconds not negative
timedelta(gmtoff, gmtoff_fraction) ==
    LET whole == IF gmtoff_fraction < 0 THEN gmtoff - 1 ELSE gmtoff
        micro == IF gmtoff_fraction < 0 THEN 1000000 + gmtoff_fraction ELSE gmtoff_fraction
    IN  [days |-> whole \div 86400, seconds |-> whole % 86400, microseconds |-> micro]

\* strptime: ok is FALSE where it raises ValueError.  The text is matched,
\* has to be used up, the offset is read, date(year, month, day) is built
\* for the day of the year, then the timezone and at last the datetime.
strptime(s) ==
    LET y  == DigitsEnd(s, 1)
        mE == FieldEnd(s, 6, 1, 1, 12)
        dE == DayEnd(s, mE + 1)
        hE == FieldEnd(s, dE + 1, 0, 0, 23)
        nE == FieldEnd(s, hE + 1, 0, 0, 59)
        sE == FieldEnd(s, nE + 1, 0, 0, 61)
    IN  IF y # 5 \/ ~IsChar(s, 5, {"-"}) THEN NoMatch(s)
        ELSE IF mE = 0 \/ ~IsChar(s, mE, {"-"}) THEN NoMatch(s)
        ELSE IF dE = 0 \/ ~IsChar(s, dE, {"T", "t"}) THEN NoMatch(s)
        ELSE IF hE = 0 \/ ~IsChar(s, hE, {":"}) THEN NoMatch(s)
        ELSE IF nE = 0 \/ ~IsChar(s, nE, {":"}) THEN NoMatch(s)
        ELSE IF sE = 0 THEN NoMatch(s)
        ELSE TheOne({
             LET year   == NumVal(s, 1, 5, 0)
                 month  == NumVal(s, 6, mE, 0)
                 day    == NumVal(s, DayStart(s, mE + 1), dE, 0)
                 second == NumVal(s, nE + 1, sE, 0)
             IN  IF z.end = 0 THEN NoMatch(s)
                 ELSE IF z.end # Len(s) + 1
                      THEN NoStamp(<<"unconverted data remains: ",
                                     SubSeq(s, z.end, Len(s))>>)
                 ELSE IF ~z.ok THEN NoStamp(z.msg)
                 ELSE IF year < 1 THEN NoStamp(<<"year ", year, " is out of range">>)
                 ELSE IF day > DaysInMonth(year, month)
                      THEN NoStamp(<<"day is out of range for month">>)
                 ELSE IF z.gmtoff >= 24 * 60 * 60 \/ z.gmtoff <= 0 - 24 * 60 * 60
                      THEN NoStamp(<<"offset must be a timedelta strictly between -timedelta(hours=24) and timedelta(hours=24), not ",
                                     timedelta(z.gmtoff, z.gmtoff_fraction), ".">>)
                 ELSE IF second > 59 THEN NoStamp(<<"second must be in 0..59">>)
                 ELSE Stamp(TRUE, year, month, day, NumVal(s, dE + 1, hE, 0),
                            NumVal(s, hE + 1, nE, 0), second, z.gmtoff, z.gmtoff_fraction,
                            <<>>)
           : z \in {Zone(s, sE)}})

\* a datetime object as a value
JDatetime(stamp) ==
    [t |-> "datetime", s |-> <<>>, n |-> 0, b |-> FALSE,
     o |-> [f \in {"year", "month", "day", "hour", "minute", "second", "gmtoff",
                   "gmtoff_fraction"} |-> JInt(stamp[f])]]

\* DatetimeConverter.from_schema handing back the validated text
DatetimeConverter_from_schema_raw(value, schema) ==
    LET r == StringConverter_from_schema(value, schema) IN
    IF ~r.ok THEN r
    ELSE IF "format" \notin DOMAIN schema \/ schema["format"].w = ""
         THEN ValueError("No format found.")
    ELSE IF schema["format"].w = "date-time" THEN r
    ELSE ValueError("Format is not \"date-time\" ")

DatetimeConverter_from_schema(value, schema) ==
    LET r == StringConverter_from_schema(value, schema) IN
    IF ~r.ok THEN r
    ELSE IF "format" \notin DOMAIN schema \/ schema["format"].w = ""
         THEN ValueError("No format found.")
    ELSE IF schema["format"].w = "date-time"
         THEN LET stamp == strptime(r.val.s) IN
              IF stamp.ok THEN Converted(JDatetime(stamp))
              ELSE ValueError(stamp.msg)
    ELSE ValueError("Format is not \"date-time\" ")

UserConverter_from_schema(value, schema) ==
    LET r == StringConverter_from_schema(value, schema) IN
    IF ~r.ok THEN r
    ELSE IF "pattern" \notin DOMAIN schema THEN ValueError("No pattern found.")
    ELSE Converted(JStr(UserMatch(r.val.s).group))

from_schema(converter, value, schema) ==
    CASE converter = "BooleanConverter" -> BooleanConverter_from_schema(value, schema)
      [] converter = "StringConverter"  -> StringConverter_from_schema(value, schema)
      [] converter = "NumericConverter" -> NumericConverter_from_schema(value, schema)
      [] converter = "LiteralConverter" -> LiteralConverter_from_schema(value, schema)
      [] converter = "DatetimeConverter" -> DatetimeConverter_from_schema(value, schema)
      [] converter = "UserConverter"    -> UserConverter_from_schema(value, schema)

(***************************************************************************)
(* The handlers the model decorates.  Each record holds what inspect sees  *)
(* of the function (its parameters, whether it is a coroutine function,    *)
(* the parameter_decorators LibParam attached) and the arguments of its    *)
(* AILibFunction decorator.  A handler returns its own name with the       *)
(* keyword arguments it was called with.                                   *)
(***************************************************************************)
P_self == <<"s", "e", "l", "f">>

P_comment == <<"c", "o", "m", "m", "e", "n", "t">>

P_n == <<"n">>

P_user == <<"u", "s", "e", "r">>

P_towait == <<"t", "o", "w", "a", "i", "t">>

P_location == <<"l", "o", "c", "a", "t", "i", "o", "n">>

P_unit == <<"u", "n", "i", "t">>

\* force words of the handlers
W_time == <<"t", "i", "m", "e">>

W_user == <<"u", "s", "e", "r">>

Param(name, tname, is_str, args, default) ==
    [name |-> name,
     annotation |-> [name |-> tname, is_str |-> is_str, args |-> args],
     default |-> default]

\* the implicit first parameter: no annotation, no default
SelfParam == Param(P_self, "_empty", FALSE, <<>>, "empty")

\* LibParam(name="text"): the metadata of a parameter is a plain description
DecStr(text) == [is_str |-> TRUE, str |-> text, dict |-> EmptyMap]

\* LibParamSpec(name, description, **kwargs): the metadata is a mapping
DecDict(d) == [is_str |-> FALSE, str |-> "", dict |-> d]

\* get_time and get_user are declared like the handlers of those names in
\* the tests, with more of the decorator's arguments in use: get_time has a
\* second parameter n: 'int' with a default, required=['n'] and
\* force_words=['time']; get_user calls its parameter user and has
\* force_words=['user']
H_get_time ==
    [pyname |-> "get_time", coroutine |-> FALSE,
     params |-> <<SelfParam, Param(P_comment, "str", TRUE, <<>>, "empty"),
                  Param(P_n, "int", TRUE, <<>>, "value")>>,
     has_decorators |-> TRUE,
     parameter_decorators |-> (P_comment :> DecStr("An interesting, amusing remark.")),
     name |-> "get_time", description |-> "Get the current time and day in UTC.",
     required |-> <<P_n>>, force_words |-> <<W_time>>, enabled |-> TRUE, strict |-> FALSE]

H_get_user ==
    [pyname |-> "get_user", coroutine |-> FALSE,
     params |-> <<SelfParam, Param(P_user, "User", TRUE, <<>>, "empty")>>,
     has_decorators |-> TRUE,
     parameter_decorators |-> (P_user :> DecStr("The user to retrieve")),
     name |-> "get_user", description |-> "Get a specific user id",
     required |-> <<>>, force_words |-> <<W_user>>, enabled |-> TRUE, strict |-> FALSE]

H_ping ==
    [pyname |-> "ping", coroutine |-> FALSE,
     params |-> <<SelfParam>>,
     has_decorators |-> FALSE,
     parameter_decorators |-> EmptyMap,
     name |-> "ping", description |-> "Answer without arguments.",
     required |-> <<>>, force_words |-> <<>>, enabled |-> FALSE, strict |-> FALSE]

H_wait_for ==
    [pyname |-> "wait_for", coroutine |-> TRUE,
     params |-> <<SelfParam, Param(P_towait, "int", FALSE, <<>>, "empty")>>,
     has_decorators |-> TRUE,
     parameter_decorators |-> (P_towait :> DecStr("Number of seconds to wait for.")),
     name |-> "wait_for", description |-> "Wait for a few seconds, then return.",
     required |-> <<>>, force_words |-> <<>>, enabled |-> TRUE, strict |-> FALSE]

H_find_user ==
    [pyname |-> "find_user", coroutine |-> TRUE,
     params |-> <<SelfParam, Param(P_user, "User", TRUE, <<>>, "empty"),
                  Param(P_n, "int", TRUE, <<>>, "value")>>,
     has_decorators |-> TRUE,
     parameter_decorators |-> (P_user :> DecStr("The user to find")),
     name |-> "find_user", description |-> "Find a user, asynchronously.",
     required |-> <<P_user, P_towait, P_user>>, force_words |-> <<>>, enabled |-> TRUE,
     strict |-> FALSE]

\* get_weather of the example: unit has a Literal type and no LibParam
H_get_weather ==
    [pyname |-> "get_weather", coroutine |-> TRUE,
     params |-> <<SelfParam, Param(P_location, "str", FALSE, <<>>, "empty"),
                  Param(P_unit, "Literal", FALSE,
                        <<<<"c", "e", "l", "s", "i", "u", "s">>, <<"f", "a", "h", "r", "e", "n", "h", "e", "i", "t">>>>, "empty")>>,
     has_decorators |-> TRUE,
     parameter_decorators |->
        (P_location :> DecStr("The city and state, e.g. San Francisco, CA")),
     name |-> "get_current_weather",
     description |-> "Get the current weather in a given location",
     required |-> <<P_location>>, force_words |-> <<>>, enabled |-> TRUE, strict |-> FALSE]

\* the library subclasses and the decorated methods of their bodies, in order
ClassBody ==
    ("MyTestLib" :> <<H_get_time, H_get_user, H_ping>>)
      @@ ("MyLib" :> <<H_wait_for, H_find_user, H_get_weather>>)

Classes == DOMAIN ClassBody

Handlers == {H_get_time, H_get_user, H_ping, H_wait_for, H_find_user, H_get_weather}

HandlerOf(pyname) == CHOOSE h \in Handlers : h.pyname = pyname

(***************************************************************************)
(* The converter registry of convertutil.                                  *)
(***************************************************************************)
BuiltinSubstitutions ==
    ("str" :> "StringConverter") @@ ("int" :> "NumericConverter")
      @@ ("bool" :> "BooleanConverter") @@ ("float" :> "NumericConverter")
      @@ ("datetime" :> "DatetimeConverter") @@ ("Literal" :> "LiteralConverter")
      @@ ("List" :> "ArrayConverter")

\* the type names and converter classes add_converter is called with
AddTypes == {"User", "str"}

AddConverters == {"UserConverter", "StringConverter"}

InSeq(x, seq) == \E i \in 1..Len(seq) : seq[i] = x

(***************************************************************************)
(* ConvertStatic.parameter_into_schema and LibCommand construction.        *)
(***************************************************************************)
parameter_into_schema(subs, param_name, param, dec) ==
    LET decs     == IF dec.is_str THEN ("description" :> FW(dec.str)) ELSE dec.dict
        typename == param.annotation.name
    IN  IF typename \notin DOMAIN subs
        THEN [found |-> FALSE, param_info |-> EmptyMap, converter |-> "None"]
        ELSE LET converter == subs[typename]
                 info0 == IF "description" \in DOMAIN decs /\ decs["description"].w # ""
                          THEN ("description" :> decs["description"]) ELSE EmptyMap
             IN  [found |-> TRUE,
                  param_info |-> MapUpdate(info0, to_schema(converter, param, decs)),
                  converter |-> converter]

NoParams == [order |-> <<>>, properties |-> EmptyMap, required |-> <<>>,
             param_converters |-> EmptyMap]

\* param_iterate recording the converter before it tests param_info
RECURSIVE param_loop_bind_first(_, _, _, _)
param_loop_bind_first(h, subs, i, acc) ==
    IF i > Len(h.params) THEN acc
    ELSE LET param == h.params[i]
             decs  == MapGet(h.parameter_decorators, param.name, DecStr(""))
             r     == parameter_into_schema(subs, param.name, param, decs)
             bound == MapPut(acc.param_converters, param.name, r.converter)
         IN  IF ~r.found
             THEN param_loop_bind_first(h, subs, i + 1, [acc EXCEPT !.param_converters = bound])
             ELSE param_loop_bind_first(h, subs, i + 1,
                    [order |-> Append(acc.order, param.name),
                     properties |-> MapPut(acc.properties, param.name, r.param_info),
                     required |-> IF param.default = "empty" \/ InSeq(param.name, h.required)
                                  THEN Append(acc.required, param.name) ELSE acc.required,
                     param_converters |-> bound])

\* param_iterate requiring only the parameters without default
RECURSIVE param_loop_default_only(_, _, _, _)
param_loop_default_only(h, subs, i, acc) ==
    IF i > Len(h.params) THEN acc
    ELSE LET param == h.params[i]
             decs  == MapGet(h.parameter_decorators, param.name, DecStr(""))
             r     == parameter_into_schema(subs, param.name, param, decs)
         IN  IF ~r.found THEN param_loop_default_only(h, subs, i + 1, acc)
             ELSE param_loop_default_only(h, subs, i + 1,
                    [order |-> Append(acc.order, param.name),
                     properties |-> MapPut(acc.properties, param.name, r.param_info),
                     required |-> IF param.default = "empty"
                                  THEN Append(acc.required, param.name) ELSE acc.required,
                     param_converters |-> MapPut(acc.param_converters, param.name, r.converter)])

\* param_iterate leaving out the parameters that have no metadata
RECURSIVE param_loop_metadata_only(_, _, _, _)
param_loop_metadata_only(h, subs, i, acc) ==
    IF i > Len(h.params) THEN acc
    ELSE LET param == h.params[i]
             decs  == MapGet(h.parameter_decorators, param.name, DecStr(""))
             r     == parameter_into_schema(subs, param.name, param, decs)
         IN  IF ~r.found \/ param.name \notin DOMAIN h.parameter_decorators
             THEN param_loop_metadata_only(h, subs, i + 1, acc)
             ELSE param_loop_metadata_only(h, subs, i + 1,
                    [order |-> Append(acc.order, param.name),
                     properties |-> MapPut(acc.properties, param.name, r.param_info),
                     required |-> IF param.default = "empty" \/ InSeq(param.name, h.required)
                                  THEN Append(acc.required, param.name) ELSE acc.required,
                     param_converters |-> MapPut(acc.param_converters, param.name, r.converter)])

\* the loop of param_iterate from the i-th parameter on
RECURSIVE param_loop(_, _, _, _)
param_loop(h, subs, i, acc) ==
    IF i > Len(h.params) THEN acc
    ELSE LET param == h.params[i]
             decs  == MapGet(h.parameter_decorators, param.name, DecStr(""))
             r     == parameter_into_schema(subs, param.name, param, decs)
         IN  IF ~r.found THEN param_loop(h, subs, i + 1, acc)
             ELSE param_loop(h, subs, i + 1,
                    [order |-> Append(acc.order, param.name),
                     properties |-> MapPut(acc.properties, param.name, r.param_info),
                     required |-> IF param.default = "empty" \/ InSeq(param.name, h.required)
                                  THEN Append(acc.required, param.name) ELSE acc.required,
                     param_converters |-> MapPut(acc.param_converters, param.name, r.converter)])

\* param_iterate putting every forced-required name into the required list
param_iterate_forced_all(h, subs) ==
    IF h.has_decorators
    THEN LET acc == param_loop(h, subs, 1, NoParams) IN
         [acc EXCEPT !.required =
            acc.required \o SelectSeq(h.required, LAMBDA x : ~InSeq(x, acc.required))]
    ELSE NoParams

\* paramdict stays empty when the function has no parameter_decorators
param_iterate(h, subs) ==
    IF h.has_decorators THEN param_loop(h, subs, 1, NoParams) ELSE NoParams

\* LibCommand.__init__: the descriptor of handler h under the registry subs
LibCommand(h, subs) ==
    LET it == param_iterate(h, subs) IN
    [function_name |-> h.name,
     comm_type |-> IF h.coroutine THEN "coroutine" ELSE "callable",
     command |-> h.pyname,
     function_schema |->
        [name |-> h.name, description |-> h.description,
         parameters |-> [type |-> "object", order |-> it.order,
                         properties |-> it.properties, required |-> it.required],
         strict |-> h.strict],
     required |-> h.required,
     param_converters |-> it.param_converters,
     enabled |-> h.enabled,
     force_words |-> h.force_words,
     strict |-> h.strict]

(***************************************************************************)
(* LibCommand.check_force: re.search of \b(?:w1|w2|...)\b, ignoring case.  *)
(***************************************************************************)
UpperCase == <<"A", "B", "C", "D", "E", "F", "G", "H", "I", "J", "K", "L", "M", "N", "O", "P", "Q", "R", "S", "T", "U", "V", "W", "X", "Y", "Z">>

LowerCase == <<"a", "b", "c", "d", "e", "f", "g", "h", "i", "j", "k", "l", "m", "n", "o", "p", "q", "r", "s", "t", "u", "v", "w", "x", "y", "z">>

\* the characters \w matches
WordChars ==
    {UpperCase[i] : i \in 1..Len(UpperCase)} \cup {LowerCase[i] : i \in 1..Len(LowerCase)}
      \cup Digits \cup {"_"}

\* the case folding of re.IGNORECASE
Lower(c) ==
    IF \E i \in 1..Len(UpperCase) : UpperCase[i] = c
    THEN LowerCase[CHOOSE i \in 1..Len(UpperCase) : UpperCase[i] = c]
    ELSE c

IsWordAt(text, i) == i \in 1..Len(text) /\ text[i] \in WordChars

\* \b between the characters i - 1 and i of text
WordBoundary(text, i) == IsWordAt(text, i - 1) # IsWordAt(text, i)

\* the escaped word matches the text from index i on
WordAt(text, i, word) ==
    /\ i + Len(word) - 1 <= Len(text)
    /\ \A k \in 1..Len(word) : Lower(text[i + k - 1]) = Lower(word[k])

check_force(cmd, query) ==
    /\ cmd.force_words # <<>>
    /\ \E w \in 1..Len(cmd.force_words), i \in 1..(Len(query) + 1) :
          /\ WordBoundary(query, i)
          /\ WordAt(query, i, cmd.force_words[w])
          /\ WordBoundary(query, i + Len(cmd.force_words[w]))

(***************************************************************************)
(* State.                                                                  *)
(***************************************************************************)
\* bounds of the model: the library instances built, and the descriptors
\* whose enabled flag differs from the one its decorator gave it
MaxInstances == 2

MaxToggled == 1

\* the entries by which the mappings of the instances differ from the ones
\* their constructors built
MaxEdits == 1

\* the largest magnitude of the integers given to the converters
MaxNum == 2

\* the calls that may be suspended at one time
MaxPending == 2

VARIABLES
    substitutions,  \* convertutil.substitutions: type name -> converter class
    commands,       \* the LibCommand objects created so far, by identity
    classDict,      \* class -> the (method name, libcommand) pairs of its __dict__
    libs,           \* the library instances: their class and their FunctionDict
    pending,        \* the calls suspended at the await of their handler, as a bag
    last            \* the last operation: its inputs, steps and outcome

vars == <<substitutions, commands, classDict, libs, pending, last>>

(***************************************************************************)
(* Call payloads.  The arguments of a payload are a raw string             *)
(* (k = "str", its text in s) or an already structured value (k = "val",   *)
(* the value in v: a mapping, or None when the key is missing).            *)
(***************************************************************************)
ArgStr(s) == [k |-> "str", s |-> s, v |-> JNull]

ArgVal(v) == [k |-> "val", s |-> <<>>, v |-> v]

\* the FunctionDict of a library is an insertion-ordered dict: a sequence of
\* [name, cmd] entries; dict[name] = cmd keeps the place of a present key
DictKeys(d) == {d[i].name : i \in 1..Len(d)}

DictGet(d, name) == (CHOOSE i \in 1..Len(d) : d[i].name = name)

DictSet(d, name, cmd) ==
    IF name \in DictKeys(d)
    THEN [i \in 1..Len(d) |-> IF d[i].name = name THEN [name |-> name, cmd |-> cmd] ELSE d[i]]
    ELSE Append(d, [name |-> name, cmd |-> cmd])

\* dict.pop(name, None)
DictDel(d, name) == SelectSeq(d, LAMBDA e : e.name # name)

(***************************************************************************)
(* The call parser.                                                        *)
(***************************************************************************)
\* ArgDecodeError.__init__(function_name, arguments, er, **kwargs): the
\* exception that leaves the constructor call
ArgDecodeError_init(arguments, pos, kwargs) ==
    IF pos >= Len(arguments) THEN "IndexError"
    ELSE IF kwargs # {} THEN "TypeError"
    ELSE "ArgDecodeError"

\* the except branch of parse_name_args: the message indexes the repaired
\* text at e.pos, then the error is built with the keyword msg
DecodeFailure(function_args_str, pos) ==
    IF pos >= Len(function_args_str) THEN "IndexError"
    ELSE ArgDecodeError_init(function_args_str, pos, {"msg"})

Parsed(exc, function_name, function_args, arguments) ==
    [exc |-> exc, function_name |-> function_name,
     function_args |-> function_args, arguments |-> arguments]

\* parse_name_args decoding the arguments before it looks at the name
parse_name_args_args_first(FunctionDict, name, arguments) ==
    LET function_args_str ==
            expression_match(QuoteEscapeFix(ReplaceNewlines(arguments.s)))
        r == json_loads(function_args_str)
    IN  IF arguments.k = "str" /\ ~r.ok
        THEN Parsed(DecodeFailure(function_args_str, r.pos), name, JNull,
                    ArgStr(function_args_str))
        ELSE IF name \in DictKeys(FunctionDict)
             THEN Parsed("", name, IF arguments.k = "str" THEN r.val ELSE arguments.v,
                         arguments)
             ELSE Parsed("FunctionNotFound", name, JNull, arguments)

\* parse_name_args: exc is "" when (function_name, function_args) is returned
parse_name_args(FunctionDict, name, arguments) ==
    IF name \in DictKeys(FunctionDict)
    THEN IF arguments.k = "str"
         THEN TheOne({TheOne({
                  IF r.ok THEN Parsed("", name, r.val, arguments)
                  ELSE Parsed(DecodeFailure(function_args_str, r.pos), name, JNull,
                              ArgStr(function_args_str))
                : r \in {json_loads(function_args_str)}})
              : function_args_str \in
                  {expression_match(QuoteEscapeFix(ReplaceNewlines(arguments.s)))}})
         ELSE Parsed("", name, arguments.v, arguments)
    ELSE Parsed("FunctionNotFound", name, JNull, arguments)

(***************************************************************************)
(* Validation and conversion of the parsed arguments.                      *)
(***************************************************************************)
\* ConversionFromError(param_name, value, schema, msg): the message is msg
\* followed by the parameter, the value and the schema; cause is the
\* exception it was raised from, "" when there is none
ConversionFromError(param_name, value, schema, msg, cause) ==
    [ok |-> FALSE, val |-> JNull,
     msg |-> <<msg, " Param:", param_name, ". Value", value, ".\n Schema:", schema>>,
     exc |-> "ConversionFromError", cause |-> cause]

\* ConvertStatic.schema_validate: the converted value, or the
\* ConversionFromError raised for a missing converter and from every
\* exception of the converter's from_schema
schema_validate(param_name, value, schema, converter) ==
    IF converter = "None"
    THEN ConversionFromError(param_name, value, schema, "No converter found.", "")
    ELSE TheOne({
           IF r.ok THEN r
           ELSE ConversionFromError(param_name, value, schema, r.msg, r.exc)
         : r \in {from_schema(converter, value, schema)}})

\* x in text, for texts
IsSubstring(x, text) ==
    \E j \in 1..(Len(text) - Len(x) + 1) : SubSeq(text, j, j + Len(x) - 1) = x

ConvertResult(exc, function_args, param, done) ==
    [exc |-> exc, function_args |-> function_args, param |-> param, done |-> done]

\* the loop of LibCommand.convert_args from the i-th schema property on;
\* done lists the properties whose value was replaced
RECURSIVE convert_loop(_, _, _, _)
convert_loop(cmd, i, function_args, done) ==
    LET parameters == cmd.function_schema.parameters IN
    IF i > Len(parameters.order) THEN ConvertResult("", function_args, <<>>, done)
    ELSE LET p == parameters.order[i] IN
         IF function_args.t = "obj"
         THEN IF p \in DOMAIN function_args.o
              THEN TheOne({
                       IF r.ok
                       THEN TheOne({convert_loop(cmd, i + 1, converted, Append(done, p))
                                    : converted \in {JObj(MapPut(function_args.o, p, r.val))}})
                       ELSE ConvertResult(r.exc, function_args, p, done)
                     : r \in {schema_validate(p, function_args.o[p],
                                              parameters.properties[p],
                                              cmd.param_converters[p])}})
              ELSE convert_loop(cmd, i + 1, function_args, done)
         ELSE IF function_args.t = "str" /\ ~IsSubstring(p, function_args.s)
              THEN convert_loop(cmd, i + 1, function_args, done)
              ELSE ConvertResult("TypeError", function_args, p, done)

\* convert_args giving None to the schema properties the arguments lack
convert_args_defaulting(cmd, function_args) ==
    TheOne({
      IF c.exc = "" /\ c.function_args.t = "obj"
      THEN [c EXCEPT !.function_args =
              JObj([p \in DOMAIN c.function_args.o
                          \cup DOMAIN cmd.function_schema.parameters.properties |->
                      IF p \in DOMAIN c.function_args.o THEN c.function_args.o[p] ELSE JNull])]
      ELSE c
    : c \in {convert_loop(cmd, 1, function_args, <<>>)}})

\* convert_args working on a copy that replaces the caller's mapping only
\* when every field passed
convert_args_atomic(cmd, function_args) ==
    TheOne({
      IF c.exc = "" THEN c ELSE [c EXCEPT !.function_args = function_args]
    : c \in {convert_loop(cmd, 1, function_args, <<>>)}})

convert_args(cmd, function_args) == convert_loop(cmd, 1, function_args, <<>>)

(***************************************************************************)
(* Invocation.                                                             *)
(***************************************************************************)
\* results: a text made of parts, or what a handler returned
Text(parts) == [k |-> "text", parts |-> parts, func |-> "", kwargs |-> EmptyMap]

Ret(func, kwargs) == [k |-> "ret", parts |-> <<>>, func |-> func, kwargs |-> kwargs]

NoValue == [k |-> "none", parts |-> <<>>, func |-> "", kwargs |-> EmptyMap]

\* the handler body: it returns its name and its keyword arguments
HandlerReturn(h, kwargs) == Ret(h.pyname, kwargs)

ParamNames(h) == {h.params[i].name : i \in 2..Len(h.params)}

RequiredNames(h) ==
    {h.params[i].name : i \in {j \in 2..Len(h.params) : h.params[j].default = "empty"}}

\* the call func(self, **kwargs) binds when every keyword is a parameter
\* and every parameter without default has a keyword
Binds(h, kwargs) ==
    DOMAIN kwargs \subseteq ParamNames(h) /\ RequiredNames(h) \subseteq DOMAIN kwargs

Invoked(exc, calls, value) == [exc |-> exc, calls |-> calls, value |-> value]

\* an invocation that runs the handler a second time
Invoke_twice(h, function_args) ==
    LET kwargs == IF function_args.t = "obj" THEN function_args.o ELSE EmptyMap IN
    IF function_args.t \in {"obj", "str"} /\ Binds(h, kwargs)
    THEN Invoked("", <<[func |-> h.pyname, kwargs |-> kwargs],
                       [func |-> h.pyname, kwargs |-> kwargs]>>, HandlerReturn(h, kwargs))
    ELSE Invoked("TypeError", <<>>, NoValue)

\* if len(function_args) > 0: func(self, **function_args) else func(self)
Invoke(h, function_args) ==
    IF function_args.t \notin {"obj", "str"} THEN Invoked("TypeError", <<>>, NoValue)
    ELSE IF function_args.t = "str" /\ function_args.s # <<>>
         THEN Invoked("TypeError", <<>>, NoValue)
    ELSE LET kwargs == IF function_args.t = "obj" THEN function_args.o ELSE EmptyMap IN
         IF Binds(h, kwargs)
         THEN Invoked("", <<[func |-> h.pyname, kwargs |-> kwargs]>>, HandlerReturn(h, kwargs))
         ELSE Invoked("TypeError", <<>>, NoValue)

(***************************************************************************)
(* The dispatcher.                                                         *)
(***************************************************************************)
\* default_callback: function_args.replace fails on anything but a string;
\* the three-backquote fences of the text are written ~~~ here
default_callback(function_name, function_args) ==
    IF function_args.k # "str" THEN [exc |-> "AttributeError", value |-> NoValue]
    ELSE [exc |-> "",
          value |-> Text(<<function_name, " is not a valid function.",
                           "\n~~~{function_args}~~~">>)]

\* the outcome of a dispatch: outcome is "return" or "raise", or "await"
\* while the handler it awaits is suspended; steps the steps that
\* completed, calls the handler invocations
Outcome(outcome, exc, value, steps, calls, function_args) ==
    [outcome |-> outcome, exc |-> exc, value |-> value, steps |-> steps,
     calls |-> calls, function_args |-> function_args]

Raise(exc, steps, function_args) ==
    Outcome("raise", exc, NoValue, steps, <<>>, function_args)

\* the handlers whose body awaits, with the parameter they await
\* asyncio.sleep on (wait_for awaits asyncio.sleep(towait))
Awaits == "wait_for" :> P_towait

\* asyncio.sleep(delay) compares delay with 0: a number suspends the
\* caller until the event loop resumes it, any other value is a TypeError
asyncio_sleep(delay) == IF delay.t \in {"int", "bool"} THEN "" ELSE "TypeError"

\* the handler's return value reaching the call that awaits it
Resume(r) ==
    IF r.outcome = "await"
    THEN [r EXCEPT !.outcome = "return",
                   !.value = HandlerReturn(HandlerOf(r.calls[1].func), r.calls[1].kwargs)]
    ELSE r

\* the except clause shared by both entrypoints
ParseFailed(p) ==
    IF p.exc = "FunctionNotFound"
    THEN LET r == default_callback(p.function_name, p.arguments) IN
         IF r.exc = "" THEN Outcome("return", "", r.value, <<>>, <<>>, JNull)
         ELSE Raise(r.exc, <<>>, JNull)
    ELSE IF p.exc = "ArgDecodeError"
         THEN Outcome("return", "", Text(<<"ArgDecodeError for ", p.function_name>>),
                      <<>>, <<>>, JNull)
         ELSE Raise(p.exc, <<>>, JNull)

\* convert_args, then the call of the synchronous handler
ConvertAndInvoke(cmd, function_args) ==
    TheOne({
      IF c.exc # "" THEN Raise(c.exc, <<"parse">>, c.function_args)
      ELSE TheOne({
             IF r.exc # "" THEN Raise(r.exc, <<"parse", "convert">>, c.function_args)
             ELSE Outcome("return", "", r.value, <<"parse", "convert", "invoke">>,
                          r.calls, c.function_args)
           : r \in {Invoke(HandlerOf(cmd.command), c.function_args)}})
    : c \in {convert_args(cmd, function_args)}})

\* call_by_dict answering for a disabled command as for an unknown name
call_by_dict_enabled_only(FunctionDict, cmds, name, arguments) ==
    TheOne({
      IF p.exc # "" THEN ParseFailed(p)
      ELSE LET libmethod == cmds[FunctionDict[DictGet(FunctionDict, p.function_name)].cmd] IN
           IF ~libmethod.enabled
           THEN ParseFailed(Parsed("FunctionNotFound", name, JNull, arguments))
           ELSE IF libmethod.comm_type = "callable"
                THEN ConvertAndInvoke(libmethod, p.function_args)
                ELSE Raise("AttributeError", <<"parse">>, p.function_args)
    : p \in {parse_name_args(FunctionDict, name, arguments)}})

\* call_by_dict running the handler of a command of either type
call_by_dict_any_type(FunctionDict, cmds, name, arguments) ==
    TheOne({
      IF p.exc # "" THEN ParseFailed(p)
      ELSE ConvertAndInvoke(cmds[FunctionDict[DictGet(FunctionDict, p.function_name)].cmd],
                            p.function_args)
    : p \in {parse_name_args(FunctionDict, name, arguments)}})

\* call_by_dict_async calling every handler with the arguments as parsed
call_by_dict_async_unconverted(FunctionDict, cmds, name, arguments) ==
    TheOne({
      IF p.exc # "" THEN ParseFailed(p)
      ELSE TheOne({
             IF r.exc # "" THEN Raise(r.exc, <<"parse">>, p.function_args)
             ELSE Outcome("return", "", r.value, <<"parse", "invoke">>,
                          r.calls, p.function_args)
           : r \in {Invoke(HandlerOf(cmds[FunctionDict[DictGet(FunctionDict,
                                        p.function_name)].cmd].command), p.function_args)}})
    : p \in {parse_name_args(FunctionDict, name, arguments)}})

call_by_dict(FunctionDict, cmds, name, arguments) ==
    TheOne({
      IF p.exc # "" THEN ParseFailed(p)
      ELSE LET libmethod == cmds[FunctionDict[DictGet(FunctionDict, p.function_name)].cmd] IN
           IF libmethod.comm_type = "callable"
           THEN ConvertAndInvoke(libmethod, p.function_args)
           ELSE Raise("AttributeError", <<"parse">>, p.function_args)
    : p \in {parse_name_args(FunctionDict, name, arguments)}})

call_by_dict_async(FunctionDict, cmds, name, arguments) ==
    TheOne({
      IF p.exc # "" THEN ParseFailed(p)
      ELSE LET libmethod == cmds[FunctionDict[DictGet(FunctionDict, p.function_name)].cmd] IN
           IF libmethod.comm_type = "coroutine"
           THEN TheOne({
                  IF r.exc # "" THEN Raise(r.exc, <<"parse">>, p.function_args)
                  ELSE IF libmethod.command \in DOMAIN Awaits
                       THEN Outcome(IF asyncio_sleep(r.calls[1].kwargs[Awaits[libmethod.command]]) = ""
                                    THEN "await" ELSE "raise",
                                    asyncio_sleep(r.calls[1].kwargs[Awaits[libmethod.command]]),
                                    NoValue, <<"parse", "invoke">>, r.calls, p.function_args)
                  ELSE Outcome("return", "", r.value, <<"parse", "invoke">>,
                               r.calls, p.function_args)
                : r \in {Invoke(HandlerOf(libmethod.command), p.function_args)}})
           ELSE IF libmethod.comm_type = "callable"
                THEN ConvertAndInvoke(libmethod, p.function_args)
                ELSE Raise("AttributeError", <<"parse">>, p.function_args)
    : p \in {parse_name_args(FunctionDict, name, arguments)}})

\* get_schema without the test of the enabled flag
RECURSIVE get_schema_from_all(_, _, _)
get_schema_from_all(FunctionDict, cmds, i) ==
    IF i > Len(FunctionDict) THEN <<>>
    ELSE LET libmethod == cmds[FunctionDict[i].cmd] IN
         IF "parameters" \in DOMAIN libmethod.function_schema
         THEN <<libmethod.function_schema>> \o get_schema_from_all(FunctionDict, cmds, i + 1)
         ELSE get_schema_from_all(FunctionDict, cmds, i + 1)

\* get_schema: the schema documents of the enabled commands, in dict order
RECURSIVE get_schema_from(_, _, _)
get_schema_from(FunctionDict, cmds, i) ==
    IF i > Len(FunctionDict) THEN <<>>
    ELSE LET libmethod == cmds[FunctionDict[i].cmd] IN
         IF libmethod.enabled /\ "parameters" \in DOMAIN libmethod.function_schema
         THEN <<libmethod.function_schema>> \o get_schema_from(FunctionDict, cmds, i + 1)
         ELSE get_schema_from(FunctionDict, cmds, i + 1)

get_schema(FunctionDict, cmds) == get_schema_from(FunctionDict, cmds, 1)

\* {"type": "function", "function": schema}
ToolEnvelope(schema) == [type |-> "function", function |-> schema]

\* get_tool_schema without the test of the enabled flag
RECURSIVE get_tool_schema_from_all(_, _, _)
get_tool_schema_from_all(FunctionDict, cmds, i) ==
    IF i > Len(FunctionDict) THEN <<>>
    ELSE LET libmethod == cmds[FunctionDict[i].cmd] IN
         IF "parameters" \in DOMAIN libmethod.function_schema
         THEN <<ToolEnvelope(libmethod.function_schema)>>
                \o get_tool_schema_from_all(FunctionDict, cmds, i + 1)
         ELSE get_tool_schema_from_all(FunctionDict, cmds, i + 1)

\* get_tool_schema: the loop of get_schema again, appending the envelopes
RECURSIVE get_tool_schema_from(_, _, _)
get_tool_schema_from(FunctionDict, cmds, i) ==
    IF i > Len(FunctionDict) THEN <<>>
    ELSE LET libmethod == cmds[FunctionDict[i].cmd] IN
         IF libmethod.enabled /\ "parameters" \in DOMAIN libmethod.function_schema
         THEN <<ToolEnvelope(libmethod.function_schema)>>
                \o get_tool_schema_from(FunctionDict, cmds, i + 1)
         ELSE get_tool_schema_from(FunctionDict, cmds, i + 1)

get_tool_schema(FunctionDict, cmds) == get_tool_schema_from(FunctionDict, cmds, 1)

\* what force_word_check returns: a list of one envelope, or None
Forced(tools) == [none |-> FALSE, tools |-> tools]

NotForced == [none |-> TRUE, tools |-> <<>>]

\* force_word_check returning the last command that matches
RECURSIVE force_word_check_last(_, _, _, _)
force_word_check_last(FunctionDict, cmds, query, i) ==
    IF i > Len(FunctionDict) THEN NotForced
    ELSE TheOne({
           IF ~later.none THEN later
           ELSE IF check_force(cmds[FunctionDict[i].cmd], query)
                THEN Forced(<<ToolEnvelope(cmds[FunctionDict[i].cmd].function_schema)>>)
                ELSE NotForced
         : later \in {force_word_check_last(FunctionDict, cmds, query, i + 1)}})

\* the loop of force_word_check from the i-th entry of the mapping on
RECURSIVE force_word_check_from(_, _, _, _)
force_word_check_from(FunctionDict, cmds, query, i) ==
    IF i > Len(FunctionDict) THEN NotForced
    ELSE LET comm == cmds[FunctionDict[i].cmd] IN
         IF check_force(comm, query)
         THEN Forced(<<ToolEnvelope(comm.function_schema)>>)
         ELSE force_word_check_from(FunctionDict, cmds, query, i + 1)

force_word_check(FunctionDict, cmds, query) ==
    force_word_check_from(FunctionDict, cmds, query, 1)

(***************************************************************************)
(* The tool-call entrypoints.  A tool call is [has_id, id, function]: the  *)
(* object has an id attribute or has none; function holds name and         *)
(* arguments.  A dict is modelled by its key set and its values.           *)
(***************************************************************************)
ToolCall(has_id, id, name, arguments) ==
    [has_id |-> has_id, id |-> id, function |-> [name |-> name, arguments |-> arguments]]

ToolMessage(function_name, function_response) ==
    [keys |-> {"role", "name", "content"}, role |-> "tool", name |-> function_name,
     content |-> function_response, tool_call_id |-> ""]

NoMessage == [keys |-> {}, role |-> "", name |-> "", content |-> NoValue, tool_call_id |-> ""]

\* append_id_if_present that sets the key for every tool call object
append_id_always(out, tool_call_object) ==
    [out EXCEPT !.keys = @ \cup {"tool_call_id"}, !.tool_call_id = tool_call_object.id]

\* util.append_id_if_present
append_id_if_present(out, tool_call_object) ==
    IF tool_call_object.has_id
    THEN [out EXCEPT !.keys = @ \cup {"tool_call_id"}, !.tool_call_id = tool_call_object.id]
    ELSE out

\* the outcome of a tool-call entrypoint: the message it returns, or the
\* exception of the dict-based entrypoint, which it lets through; while the
\* dict-based entrypoint is suspended there is no message yet
ToolOutcome(tool_call, function_response) ==
    IF function_response.outcome = "raise"
    THEN [outcome |-> "raise", exc |-> function_response.exc, message |-> NoMessage,
          calls |-> function_response.calls]
    ELSE IF function_response.outcome = "await"
    THEN [outcome |-> "await", exc |-> "", message |-> NoMessage,
          calls |-> function_response.calls]
    ELSE [outcome |-> "return", exc |-> "",
          message |-> append_id_if_present(
                          ToolMessage(tool_call.function.name, function_response.value),
                          tool_call),
          calls |-> function_response.calls]

call_by_tool(FunctionDict, cmds, tool_call) ==
    TheOne({ToolOutcome(tool_call, function_response)
            : function_response \in
                {call_by_dict(FunctionDict, cmds, tool_call.function.name,
                              tool_call.function.arguments)}})

call_by_tool_async(FunctionDict, cmds, tool_call) ==
    TheOne({ToolOutcome(tool_call, function_response)
            : function_response \in
                {call_by_dict_async(FunctionDict, cmds, tool_call.function.name,
                                    tool_call.function.arguments)}})

(***************************************************************************)
(* The payloads the model dispatches.                                      *)
(***************************************************************************)
\* {"comment": "hi"}
S_valid ==
    <<"{", "\"", "c", "o", "m", "m", "e", "n", "t", "\"", ":", " ", "\"",
    "h", "i", "\"", "}">>

\* {}
S_empty_object ==
    <<"{", "}">>

\* the empty string
S_empty ==
    <<>>

\* {"comment": "hi   (cut inside the string)
S_cut_string ==
    <<"{", "\"", "c", "o", "m", "m", "e", "n", "t", "\"", ":", " ", "\"",
    "h", "i">>

\* {"comment": "hi"   (its last character is missing)
S_cut_last ==
    <<"{", "\"", "c", "o", "m", "m", "e", "n", "t", "\"", ":", " ", "\"",
    "h", "i", "\"">>

\* {"comment": "a\"b"}   (a correctly escaped quote in the value)
S_escaped ==
    <<"{", "\"", "c", "o", "m", "m", "e", "n", "t", "\"", ":", " ", "\"",
    "a", "\\", "\"", "b", "\"", "}">>

\* {"comment": 5}
S_number ==
    <<"{", "\"", "c", "o", "m", "m", "e", "n", "t", "\"", ":", " ", "5",
    "}">>

\* {"user": "<@12>"}
S_user ==
    <<"{", "\"", "u", "s", "e", "r", "\"", ":", " ", "\"", "<", "@", "1",
    "2", ">", "\"", "}">>

\* {"user": "bob"}
S_not_user ==
    <<"{", "\"", "u", "s", "e", "r", "\"", ":", " ", "\"", "b", "o", "b",
    "\"", "}">>

\* {"towait": 5}
S_towait ==
    <<"{", "\"", "t", "o", "w", "a", "i", "t", "\"", ":", " ", "5", "}">>

\* {"towait": "5"}
S_towait_text ==
    <<"{", "\"", "t", "o", "w", "a", "i", "t", "\"", ":", " ", "\"", "5", "\"", "}">>

M_comment == JObj(P_comment :> JStr(<<"h", "i">>))

Payload(name, arguments) == [name |-> name, arguments |-> arguments]

\* the payloads: unknown names, well-formed and malformed argument strings,
\* already structured arguments and a payload without arguments
Payloads ==
    {Payload("nope", ArgStr(S_empty_object)),
     Payload("nope", ArgStr(S_cut_string)),
     Payload("nope", ArgVal(JObj(EmptyMap))),
     Payload("nope", ArgVal(JNull)),
     Payload("get_time", ArgStr(S_valid)),
     Payload("get_time", ArgStr(S_escaped)),
     Payload("get_time", ArgStr(S_number)),
     Payload("get_time", ArgStr(S_empty)),
     Payload("get_time", ArgStr(S_cut_last)),
     Payload("get_time", ArgStr(S_cut_string)),
     Payload("get_time", ArgVal(M_comment)),
     Payload("get_time", ArgVal(JNull)),
     Payload("get_user", ArgStr(S_user)),
     Payload("get_user", ArgStr(S_not_user)),
     Payload("ping", ArgStr(S_empty_object)),
     Payload("ping", ArgStr(S_valid)),
     Payload("find_user", ArgStr(S_user))}

\* calls of the handler that awaits
AsyncPayloads ==
    {Payload("wait_for", ArgStr(S_towait)),
     Payload("wait_for", ArgStr(S_towait_text)),
     Payload("wait_for", ArgStr(S_empty_object)),
     Payload("get_current_weather", ArgStr(S_towait))}

\* the texts force_word_check is asked about: a force word in capitals,
\* the words of two commands, a force word inside a longer word, none
Q_time == <<"W", "h", "a", "t", " ", "T", "I", "M", "E", "?">>

Q_both == <<"u", "s", "e", "r", " ", "t", "i", "m", "e">>

Q_user == <<"a", " ", "U", "s", "e", "r">>

Q_inside == <<"o", "v", "e", "r", "t", "i", "m", "e">>

Q_none == <<"h", "e", "l", "l", "o">>

Queries == {Q_time, Q_both, Q_user, Q_inside, Q_none}

\* tool calls: with an id (the OpenAI object) and without (the Ollama one)
ToolPayloads ==
    {Payload("nope", ArgStr(S_empty_object)),
     Payload("get_time", ArgStr(S_valid)),
     Payload("get_time", ArgStr(S_number)),
     Payload("get_user", ArgStr(S_user))}

ToolCalls ==
    {ToolCall(TRUE, "call_1", p.name, p.arguments) : p \in ToolPayloads}
      \cup {ToolCall(FALSE, "", p.name, p.arguments) : p \in ToolPayloads}

AsyncToolCalls ==
    {ToolCall(TRUE, "call_1", "wait_for", ArgStr(S_towait)),
     ToolCall(FALSE, "", "wait_for", ArgStr(S_towait))}

(***************************************************************************)
(* Operations.                                                             *)
(***************************************************************************)
NoOutcome == Outcome("none", "", NoValue, <<>>, <<>>, JNull)

NoParsed == Parsed("", "", JNull, ArgVal(JNull))

\* the record of an operation; the fields an operation does not use keep
\* these values
NoLast ==
    [op |-> "none", lib |-> 0, name |-> "", arguments |-> ArgVal(JNull),
     result |-> NoOutcome, parsed |-> NoParsed, schema |-> <<>>,
     typename |-> "", converter |-> "", exc |-> "",
     tools |-> <<>>, query |-> <<>>, forced |-> NotForced,
     tool_call |-> ToolCall(FALSE, "", "", ArgVal(JNull)),
     tool |-> [outcome |-> "none", exc |-> "", message |-> NoMessage, calls |-> <<>>],
     value |-> JNull, fragment |-> EmptyMap, param |-> SelfParam, dec |-> EmptyMap,
     converted |-> Converted(JNull)]

\* the operations whose outcome (a value or an exception) the caller holds
\* until it drops it; the program keeps no record of the outcome
QueryOps == {"add_converter", "parse_name_args", "call_by_dict", "call_by_dict_async",
             "get_schema", "get_tool_schema", "force_word_check", "call_by_tool",
             "call_by_tool_async", "convert_args"}

Idle == last.op \notin QueryOps

Init ==
    /\ substitutions = BuiltinSubstitutions
    /\ commands = <<>>
    /\ classDict = EmptyMap
    /\ libs = <<>>
    /\ pending = EmptyBag
    /\ last = NoLast

\* add_converter overwriting the binding of a type name that is present
add_converter_overwrite(subs, typename, converterclass) ==
    [exc |-> "", substitutions |-> MapPut(subs, typename, converterclass)]

\* add_converter(fortype, converterclass) on the registry subs
add_converter(subs, typename, converterclass) ==
    IF typename \notin DOMAIN subs
    THEN [exc |-> "", substitutions |-> MapPut(subs, typename, converterclass)]
    ELSE [exc |-> "ConversionAddError", substitutions |-> subs]

AddConverter(typename, converterclass) ==
    LET r == add_converter(substitutions, typename, converterclass) IN
    /\ Idle
    /\ substitutions' = r.substitutions
    /\ last' = [NoLast EXCEPT !.op = "add_converter", !.typename = typename,
                              !.converter = converterclass, !.exc = r.exc]
    /\ UNCHANGED <<commands, classDict, libs, pending>>

\* the class statement of a library subclass: AILibFunction builds one
\* LibCommand per decorated method, under the registry of that moment
DefineClass(c) ==
    /\ Idle
    /\ c \notin DOMAIN classDict
    /\ LET body == ClassBody[c]
           base == Len(commands)
       IN  /\ commands' = commands \o [i \in 1..Len(body) |-> LibCommand(body[i], substitutions)]
           /\ classDict' = MapPut(classDict, c,
                  [i \in 1..Len(body) |-> [name |-> body[i].pyname, libcommand |-> base + i]])
    /\ last' = NoLast
    /\ UNCHANGED <<substitutions, libs, pending>>

\* _update_function_dict: the decorated methods of the class, in order
RECURSIVE update_function_dict(_, _, _, _)
update_function_dict(cmds, methods, i, FunctionDict) ==
    IF i > Len(methods) THEN FunctionDict
    ELSE LET cmd == cmds[methods[i].libcommand]
             function_name == IF cmd.function_name # "" THEN cmd.function_name
                              ELSE methods[i].name
         IN  update_function_dict(cmds, methods, i + 1,
                 DictSet(FunctionDict, function_name, methods[i].libcommand))

\* GPTFunctionLibrary.__init__ of an instance of class c
NewLibrary(c) ==
    /\ Idle
    /\ c \in DOMAIN classDict
    /\ Len(libs) < MaxInstances
    /\ libs' = Append(libs, [cls |-> c, do_expression |-> FALSE,
                             FunctionDict |-> update_function_dict(commands, classDict[c], 1, <<>>)])
    /\ last' = NoLast
    /\ UNCHANGED <<substitutions, commands, classDict, pending>>

Toggled(cmds) ==
    {i \in 1..Len(cmds) : cmds[i].enabled # HandlerOf(cmds[i].command).enabled}

\* libcommand.enabled = b, the one field of a descriptor that is assigned
\* after construction
SetEnabled(cmd, b) ==
    /\ Idle
    /\ cmd \in 1..Len(commands)
    /\ commands[cmd].enabled # b
    /\ commands' = [commands EXCEPT ![cmd].enabled = b]
    /\ Cardinality(Toggled(commands')) <= MaxToggled
    /\ last' = NoLast
    /\ UNCHANGED <<substitutions, classDict, libs, pending>>

ParseNameArgs(lib, name, arguments) ==
    /\ Idle
    /\ lib \in 1..Len(libs)
    /\ last' = [NoLast EXCEPT !.op = "parse_name_args", !.lib = lib, !.name = name,
                              !.arguments = arguments,
                              !.parsed = parse_name_args(libs[lib].FunctionDict, name, arguments)]
    /\ UNCHANGED <<substitutions, commands, classDict, libs, pending>>

\* a dispatch that drops the entry it was called for from the mapping
CallByDict_popping(lib, name, arguments) ==
    /\ Idle
    /\ lib \in 1..Len(libs)
    /\ last' = [NoLast EXCEPT !.op = "call_by_dict", !.lib = lib, !.name = name,
                              !.arguments = arguments,
                              !.result = call_by_dict(libs[lib].FunctionDict, commands,
                                                      name, arguments)]
    /\ libs' = [libs EXCEPT ![lib].FunctionDict = DictDel(@, name)]
    /\ UNCHANGED <<substitutions, commands, classDict, pending>>

CallByDict(lib, name, arguments) ==
    /\ Idle
    /\ lib \in 1..Len(libs)
    /\ last' = [NoLast EXCEPT !.op = "call_by_dict", !.lib = lib, !.name = name,
                              !.arguments = arguments,
                              !.result = call_by_dict(libs[lib].FunctionDict, commands,
                                                      name, arguments)]
    /\ UNCHANGED <<substitutions, commands, classDict, libs, pending>>

\* a call suspended at the await of its handler: the entrypoint, its
\* inputs and the outcome so far
Suspended(op, lib, name, arguments, tool_call, result) ==
    [op |-> op, lib |-> lib, name |-> name, arguments |-> arguments,
     tool_call |-> tool_call, result |-> result]

\* await lib.call_by_dict_async(...) up to its return or raise or, when the
\* handler awaits, up to the suspension of the handler
CallByDictAsync(lib, name, arguments) ==
    /\ Idle
    /\ lib \in 1..Len(libs)
    /\ \E r \in {call_by_dict_async(libs[lib].FunctionDict, commands, name, arguments)} :
          IF r.outcome = "await"
          THEN /\ BagCardinality(pending) < MaxPending
               /\ pending' = pending (+) SetToBag({Suspended("call_by_dict_async", lib, name,
                                                              arguments, NoLast.tool_call, r)})
               /\ last' = NoLast
          ELSE /\ pending' = pending
               /\ last' = [NoLast EXCEPT !.op = "call_by_dict_async", !.lib = lib,
                                         !.name = name, !.arguments = arguments,
                                         !.result = r]
    /\ UNCHANGED <<substitutions, commands, classDict, libs>>

GetSchema(lib) ==
    /\ Idle
    /\ lib \in 1..Len(libs)
    /\ last' = [NoLast EXCEPT !.op = "get_schema", !.lib = lib,
                              !.schema = get_schema(libs[lib].FunctionDict, commands)]
    /\ UNCHANGED <<substitutions, commands, classDict, libs, pending>>

GetToolSchema(lib) ==
    /\ Idle
    /\ lib \in 1..Len(libs)
    /\ last' = [NoLast EXCEPT !.op = "get_tool_schema", !.lib = lib,
                              !.tools = get_tool_schema(libs[lib].FunctionDict, commands)]
    /\ UNCHANGED <<substitutions, commands, classDict, libs, pending>>

ForceWordCheck(lib, query) ==
    /\ Idle
    /\ lib \in 1..Len(libs)
    /\ last' = [NoLast EXCEPT !.op = "force_word_check", !.lib = lib, !.query = query,
                              !.forced = force_word_check(libs[lib].FunctionDict,
                                                          commands, query)]
    /\ UNCHANGED <<substitutions, commands, classDict, libs, pending>>

CallByTool(lib, tool_call) ==
    /\ Idle
    /\ lib \in 1..Len(libs)
    /\ last' = [NoLast EXCEPT !.op = "call_by_tool", !.lib = lib, !.tool_call = tool_call,
                              !.tool = call_by_tool(libs[lib].FunctionDict, commands,
                                                    tool_call)]
    /\ UNCHANGED <<substitutions, commands, classDict, libs, pending>>

\* await lib.call_by_tool_async(tool_call), suspended where the dict-based
\* entrypoint it awaits is
CallByToolAsync(lib, tool_call) ==
    /\ Idle
    /\ lib \in 1..Len(libs)
    /\ \E r \in {call_by_dict_async(libs[lib].FunctionDict, commands,
                                     tool_call.function.name, tool_call.function.arguments)} :
          IF r.outcome = "await"
          THEN /\ BagCardinality(pending) < MaxPending
               /\ pending' = pending (+) SetToBag({Suspended("call_by_tool_async", lib,
                                                              tool_call.function.name,
                                                              tool_call.function.arguments,
                                                              tool_call, r)})
               /\ last' = NoLast
          ELSE /\ pending' = pending
               /\ last' = [NoLast EXCEPT !.op = "call_by_tool_async", !.lib = lib,
                                         !.tool_call = tool_call,
                                         !.tool = call_by_tool_async(libs[lib].FunctionDict,
                                                                     commands, tool_call)]
    /\ UNCHANGED <<substitutions, commands, classDict, libs>>

\* the event loop resumes a suspended handler, which returns; the awaiting
\* entrypoint returns the value, call_by_tool_async inside its message
HandlerReturns(f) ==
    /\ Idle
    /\ BagIn(f, pending)
    /\ pending' = pending (-) SetToBag({f})
    /\ last' = IF f.op = "call_by_dict_async"
               THEN [NoLast EXCEPT !.op = f.op, !.lib = f.lib, !.name = f.name,
                                   !.arguments = f.arguments, !.result = Resume(f.result)]
               ELSE [NoLast EXCEPT !.op = f.op, !.lib = f.lib, !.tool_call = f.tool_call,
                                   !.tool = ToolOutcome(f.tool_call, Resume(f.result))]
    /\ UNCHANGED <<substitutions, commands, classDict, libs>>

\* libcommand.param_iterate() called again on a descriptor: the schema's
\* parameters are rebuilt under the registry as it is now, and the
\* converters found are stored over the ones the descriptor holds
param_iterate_again(libcommand, subs) ==
    TheOne({
      [libcommand EXCEPT
          !.function_schema.parameters =
              [type |-> "object", order |-> it.order, properties |-> it.properties,
               required |-> it.required],
          !.param_converters =
              [p \in DOMAIN @ \cup DOMAIN it.param_converters |->
                  IF p \in DOMAIN it.param_converters THEN it.param_converters[p]
                  ELSE @[p]]]
    : it \in {param_iterate(HandlerOf(libcommand.command), subs)}})

ParamIterate(cmd) ==
    /\ Idle
    /\ cmd \in 1..Len(commands)
    /\ commands' = [commands EXCEPT ![cmd] = param_iterate_again(@, substitutions)]
    /\ last' = NoLast
    /\ UNCHANGED <<substitutions, classDict, libs, pending>>

\* the caller drops the outcome; nothing of it stays in the program
Discard ==
    /\ ~Idle
    /\ last' = NoLast
    /\ UNCHANGED <<substitutions, commands, classDict, libs, pending>>

Next ==
    \/ \E t \in AddTypes, c \in AddConverters : AddConverter(t, c)
    \/ \E c \in Classes : DefineClass(c)
    \/ \E c \in Classes : NewLibrary(c)
    \/ \E cmd \in 1..Len(commands), b \in BOOLEAN : SetEnabled(cmd, b)
    \/ \E lib \in 1..Len(libs), p \in Payloads : ParseNameArgs(lib, p.name, p.arguments)
    \/ \E lib \in 1..Len(libs), p \in Payloads : CallByDict(lib, p.name, p.arguments)
    \/ \E lib \in 1..Len(libs), p \in Payloads : CallByDictAsync(lib, p.name, p.arguments)
    \/ \E cmd \in 1..Len(commands) : ParamIterate(cmd)
    \/ \E lib \in 1..Len(libs) : GetSchema(lib)
    \/ Discard

Spec == Init /\ [][Next]_vars

(***************************************************************************)
(* The tool-call entrypoints of a library: the same registry, classes and  *)
(* instances, asked through get_tool_schema, force_word_check and          *)
(* call_by_tool.                                                           *)
(***************************************************************************)
NextTools ==
    \/ \E t \in AddTypes, c \in AddConverters : AddConverter(t, c)
    \/ \E c \in Classes : DefineClass(c)
    \/ \E c \in Classes : NewLibrary(c)
    \/ \E cmd \in 1..Len(commands), b \in BOOLEAN : SetEnabled(cmd, b)
    \/ \E lib \in 1..Len(libs) : GetToolSchema(lib)
    \/ \E lib \in 1..Len(libs), q \in Queries : ForceWordCheck(lib, q)
    \/ \E lib \in 1..Len(libs), t \in ToolCalls : CallByTool(lib, t)
    \/ \E lib \in 1..Len(libs), t \in ToolCalls : CallByToolAsync(lib, t)
    \/ \E cmd \in 1..Len(commands) : ParamIterate(cmd)
    \/ Discard

SpecTools == Init /\ [][NextTools]_vars

(***************************************************************************)
(* Direct edits of the mapping of one instance.  FunctionDict is a public  *)
(* attribute that __init__ assigns on the instance; callers add and remove *)
(* entries of it.                                                          *)
(***************************************************************************)
\* a FunctionDict attribute of the class (functionlib_discord.py declares one
\* in the class body): every instance reads and writes one dict
class_FunctionDict(instances, lib, d) ==
    [i \in 1..Len(instances) |-> [instances[i] EXCEPT !.FunctionDict = d]]

\* the FunctionDict attribute of instance lib becomes d
self_FunctionDict(instances, lib, d) ==
    [instances EXCEPT ![lib].FunctionDict = d]

\* the mapping the constructor built for instance i
Constructed(instances, i) ==
    update_function_dict(commands, classDict[instances[i].cls], 1, <<>>)

DictBinding(d, name) == IF name \in DictKeys(d) THEN d[DictGet(d, name)].cmd ELSE 0

\* the names that instance i binds otherwise than its constructor did
Edited(instances, i) ==
    LET d == instances[i].FunctionDict
        c == Constructed(instances, i)
    IN  {name \in DictKeys(d) \cup DictKeys(c) : DictBinding(d, name) # DictBinding(c, name)}

RECURSIVE Edits(_, _)
Edits(instances, i) ==
    IF i = 0 THEN 0 ELSE Cardinality(Edited(instances, i)) + Edits(instances, i - 1)

EntryNames == {"get_time", "alias"}

\* the descriptors a caller puts into a mapping: the first and the last made
EntryCommands(cmds) == {i \in 1..Len(cmds) : i = 1 \/ i = Len(cmds)}

\* lib.FunctionDict[name] = descriptor cmd
AddEntry(lib, name, cmd) ==
    /\ Idle
    /\ lib \in 1..Len(libs)
    /\ cmd \in EntryCommands(commands)
    /\ DictBinding(libs[lib].FunctionDict, name) # cmd
    /\ libs' = self_FunctionDict(libs, lib, DictSet(libs[lib].FunctionDict, name, cmd))
    /\ Edits(libs', Len(libs')) <= MaxEdits
    /\ last' = NoLast
    /\ UNCHANGED <<substitutions, commands, classDict, pending>>

\* lib.FunctionDict.pop(name, None); a missing name changes nothing
RemoveEntry(lib, name) ==
    /\ Idle
    /\ lib \in 1..Len(libs)
    /\ name \in DictKeys(libs[lib].FunctionDict)
    /\ libs' = self_FunctionDict(libs, lib, DictDel(libs[lib].FunctionDict, name))
    /\ Edits(libs', Len(libs')) <= MaxEdits
    /\ last' = NoLast
    /\ UNCHANGED <<substitutions, commands, classDict, pending>>

NextMappings ==
    \/ \E c \in Classes : DefineClass(c)
    \/ \E c \in Classes : NewLibrary(c)
    \/ \E lib \in 1..Len(libs), name \in EntryNames, cmd \in EntryCommands(commands) :
          AddEntry(lib, name, cmd)
    \/ \E lib \in 1..Len(libs), name \in EntryNames : RemoveEntry(lib, name)

SpecMappings == Init /\ [][NextMappings]_vars

(***************************************************************************)
(* Calls of a handler that awaits.  Between the suspension of the handler  *)
(* and its return the event loop runs other tasks: they start further      *)
(* calls, ask for the schema, disable a command, rebuild its parameters or *)
(* drop the entry of the handler from the mapping.                         *)
(***************************************************************************)
AsyncClasses == {"MyLib"}

AsyncEntryNames == {"wait_for"}

NextAsync ==
    \/ \E c \in AsyncClasses : DefineClass(c)
    \/ \E c \in AsyncClasses : NewLibrary(c)
    \/ \E cmd \in 1..Len(commands), b \in BOOLEAN : SetEnabled(cmd, b)
    \/ \E cmd \in 1..Len(commands) : ParamIterate(cmd)
    \/ \E lib \in 1..Len(libs), name \in AsyncEntryNames : RemoveEntry(lib, name)
    \/ \E lib \in 1..Len(libs), p \in AsyncPayloads : CallByDict(lib, p.name, p.arguments)
    \/ \E lib \in 1..Len(libs), p \in AsyncPayloads : CallByDictAsync(lib, p.name, p.arguments)
    \/ \E lib \in 1..Len(libs), t \in AsyncToolCalls : CallByToolAsync(lib, t)
    \/ \E f \in BagToSet(pending) : HandlerReturns(f)
    \/ \E lib \in 1..Len(libs) : GetSchema(lib)
    \/ Discard

SpecAsync == Init /\ [][NextAsync]_vars

(***************************************************************************)
(* The converters on their own: a value and a schema fragment for          *)
(* NumericConverter.from_schema, a parameter and its metadata for          *)
(* StringConverter.to_schema.                                              *)
(***************************************************************************)
Nums == (0 - MaxNum)..MaxNum

NumericKeys == {"minimum", "maximum", "exclusiveMinimum", "exclusiveMaximum", "multipleOf"}

\* the fragments of an integer parameter: any of the keys, each an integer
NumericFragments ==
    {MapPut(f, "type", FW("integer")) :
        f \in UNION {[K -> {FN(n) : n \in Nums}] : K \in SUBSET NumericKeys}}

\* def f(param), def f(param=None), def f(param="text")
StringParams == {Param(P_comment, "str", FALSE, <<>>, d) : d \in {"empty", "None", "value"}}

\* the metadata of a string parameter: a description, lengths, a pattern
StringMetadata ==
    {f @@ p @@ d :
        f \in UNION {[K -> {FN(n) : n \in 0..MaxNum}] :
                       K \in SUBSET {"minLength", "maxLength"}},
        p \in {EmptyMap, "pattern" :> FW(UserPattern)},
        d \in {EmptyMap, "description" :> FW("An interesting, amusing remark.")}}

InitConverters ==
    /\ substitutions = BuiltinSubstitutions
    /\ commands = <<>>
    /\ classDict = EmptyMap
    /\ libs = <<>>
    /\ pending = EmptyBag
    /\ \/ \E value \in Nums, schema \in NumericFragments :
             last = [NoLast EXCEPT !.op = "input", !.converter = "NumericConverter",
                                   !.value = JInt(value), !.fragment = schema]
       \/ \E param \in StringParams, dec \in StringMetadata :
             last = [NoLast EXCEPT !.op = "input", !.converter = "StringConverter",
                                   !.param = param, !.dec = dec]

\* NumericConverter().from_schema(value, schema)
FromSchema ==
    /\ last.op = "input"
    /\ last.converter = "NumericConverter"
    /\ last' = [last EXCEPT !.op = "from_schema",
                            !.converted = NumericConverter_from_schema(last.value, last.fragment)]
    /\ UNCHANGED <<substitutions, commands, classDict, libs, pending>>

\* StringConverter().to_schema(param, dec)
ToSchema ==
    /\ last.op = "input"
    /\ last.converter = "StringConverter"
    /\ last' = [last EXCEPT !.op = "to_schema",
                            !.fragment = StringConverter_to_schema(last.param, last.dec)]
    /\ UNCHANGED <<substitutions, commands, classDict, libs, pending>>

NextConverters == FromSchema \/ ToSchema

SpecConverters == InitConverters /\ [][NextConverters]_vars

(***************************************************************************)
(* Every built-in converter: to_schema of a parameter and its metadata,    *)
(* then, for the date-time converter, from_schema of a value under the     *)
(* fragment or under a fragment whose format was changed.                  *)
(***************************************************************************)
\* 2018-11-13T20:20:39+00:00   (the example of the documentation)
D_example ==
    <<"2", "0", "1", "8", "-", "1", "1", "-", "1", "3", "T", "2", "0", ":",
      "2", "0", ":", "3", "9", "+", "0", "0", ":", "0", "0">>

\* 2018-11-13T20:20:39Z   (the zone as Z)
D_zulu ==
    <<"2", "0", "1", "8", "-", "1", "1", "-", "1", "3", "T", "2", "0", ":",
      "2", "0", ":", "3", "9", "Z">>

\* 2018-11-13t20:20:39Z   (a small t between date and time)
D_lower ==
    <<"2", "0", "1", "8", "-", "1", "1", "-", "1", "3", "t", "2", "0", ":",
      "2", "0", ":", "3", "9", "Z">>

\* 2018-11-13T20:20:39z   (a small z, which the zone does not take)
D_small_z ==
    <<"2", "0", "1", "8", "-", "1", "1", "-", "1", "3", "T", "2", "0", ":",
      "2", "0", ":", "3", "9", "z">>

\* 2018-11-13T20:20:39   (no zone)
D_naive ==
    <<"2", "0", "1", "8", "-", "1", "1", "-", "1", "3", "T", "2", "0", ":",
      "2", "0", ":", "3", "9">>

\* 2018-11-13   (a date alone)
D_date ==
    <<"2", "0", "1", "8", "-", "1", "1", "-", "1", "3">>

\* 2018-02-30T00:00:00Z   (a day the month does not have)
D_feb30 ==
    <<"2", "0", "1", "8", "-", "0", "2", "-", "3", "0", "T", "0", "0", ":",
      "0", "0", ":", "0", "0", "Z">>

\* 2020-02-29T23:59:59-0530   (a leap day, a negative zone without colon)
D_leap ==
    <<"2", "0", "2", "0", "-", "0", "2", "-", "2", "9", "T", "2", "3", ":",
      "5", "9", ":", "5", "9", "-", "0", "5", "3", "0">>

\* 2018-11-13T20:20:60Z   (a leap second, which the format takes and datetime rejects)
D_sec60 ==
    <<"2", "0", "1", "8", "-", "1", "1", "-", "1", "3", "T", "2", "0", ":",
      "2", "0", ":", "6", "0", "Z">>

\* 2018-1-3T4:5:6Z   (fields of one digit)
D_short ==
    <<"2", "0", "1", "8", "-", "1", "-", "3", "T", "4", ":", "5", ":", "6",
      "Z">>

\* 2018-11-13T20:20:39Z    (a blank after the zone)
D_trailing ==
    <<"2", "0", "1", "8", "-", "1", "1", "-", "1", "3", "T", "2", "0", ":",
      "2", "0", ":", "3", "9", "Z", " ">>

\* 2018-11-13T20:20:39+24:00   (a zone of a whole day)
D_day_off ==
    <<"2", "0", "1", "8", "-", "1", "1", "-", "1", "3", "T", "2", "0", ":",
      "2", "0", ":", "3", "9", "+", "2", "4", ":", "0", "0">>

\* 0000-01-01T00:00:00Z   (the year 0)
D_year0 ==
    <<"0", "0", "0", "0", "-", "0", "1", "-", "0", "1", "T", "0", "0", ":",
      "0", "0", ":", "0", "0", "Z">>

\* 2018-11-13T20:20:39+01:30:15.5   (a zone with seconds and a fraction)
D_zone_sec ==
    <<"2", "0", "1", "8", "-", "1", "1", "-", "1", "3", "T", "2", "0", ":",
      "2", "0", ":", "3", "9", "+", "0", "1", ":", "3", "0", ":", "1", "5",
      ".", "5">>

\* 2018-11-13T20:20:39+01:3015   (a zone with a colon in one place only)
D_zone_mixed ==
    <<"2", "0", "1", "8", "-", "1", "1", "-", "1", "3", "T", "2", "0", ":",
      "2", "0", ":", "3", "9", "+", "0", "1", ":", "3", "0", "1", "5">>

\* hi   (no date at all)
D_word ==
    <<"h", "i">>

DateTexts ==
    {D_example, D_zulu, D_lower, D_small_z, D_naive, D_date, D_feb30, D_leap, D_sec60,
     D_short, D_trailing, D_day_off, D_year0, D_zone_sec, D_zone_mixed, D_word}

\* the parameters each built-in converter is asked about: without default
\* and with default None, int and float, List[int], List[User], List,
\* Tuple[int, str], Tuple, Literal["celsius", "fahrenheit"]
BuiltinParams ==
    [c \in {"BooleanConverter", "StringConverter", "NumericConverter", "DatetimeConverter",
            "ArrayConverter", "LiteralConverter"} |->
       CASE c = "BooleanConverter" -> {Param(P_n, "bool", FALSE, <<>>, "empty")}
         [] c = "StringConverter" ->
              {Param(P_comment, "str", FALSE, <<>>, d) : d \in {"empty", "None"}}
         [] c = "NumericConverter" ->
              {Param(P_n, t, FALSE, <<>>, "empty") : t \in {"int", "float"}}
         [] c = "DatetimeConverter" ->
              {Param(P_n, "datetime", FALSE, <<>>, d) : d \in {"empty", "None"}}
         [] c = "ArrayConverter" ->
              {Param(P_n, "List", FALSE, a, "empty") : a \in {<<"int">>, <<"User">>, <<>>}}
                \cup {Param(P_n, "Tuple", FALSE, a, "empty") : a \in {<<"int", "str">>, <<>>}}
         [] c = "LiteralConverter" -> {H_get_weather.params[3]}]

\* the metadata LibParamSpec can give: a description, constraint keys of
\* the string, numeric and array converters, a format, and examples, which
\* is a key of no converter
BuiltinMetadataKeys ==
    ("description" :> FW("An interesting, amusing remark."))
      @@ ("minLength" :> FN(1)) @@ ("maxLength" :> FN(20)) @@ ("pattern" :> FW(UserPattern))
      @@ ("maximum" :> FN(2)) @@ ("minItems" :> FN(1)) @@ ("uniqueItems" :> FB(TRUE))
      @@ ("format" :> FW("date")) @@ ("examples" :> FL(<<<<"a">>>>))

BuiltinMetadata == {[k \in K |-> BuiltinMetadataKeys[k]] : K \in SUBSET DOMAIN BuiltinMetadataKeys}

InitBuiltins ==
    /\ substitutions = BuiltinSubstitutions
    /\ commands = <<>>
    /\ classDict = EmptyMap
    /\ libs = <<>>
    /\ pending = EmptyBag
    /\ \E c \in DOMAIN BuiltinParams, dec \in BuiltinMetadata :
          \E param \in BuiltinParams[c] :
             last = [NoLast EXCEPT !.op = "input", !.converter = c, !.param = param,
                                   !.dec = dec]

\* converter().to_schema(param, dec)
ConverterToSchema ==
    /\ last.op = "input"
    /\ last' = [last EXCEPT !.op = "converter_to_schema",
                            !.fragment = to_schema(last.converter, last.param, last.dec)]
    /\ UNCHANGED <<substitutions, commands, classDict, libs, pending>>

\* the fragment as generated, without its format, and with another format
FormatVariants(schema) ==
    {schema, [k \in DOMAIN schema \ {"format"} |-> schema[k]],
     MapPut(schema, "format", FW("date"))}

\* DatetimeConverter().from_schema(value, schema)
ConverterFromSchema(value, schema) ==
    /\ last.op = "converter_to_schema"
    /\ last.converter = "DatetimeConverter"
    /\ schema \in FormatVariants(last.fragment)
    /\ last' = [last EXCEPT !.op = "converter_from_schema", !.value = value,
                            !.fragment = schema,
                            !.converted = from_schema(last.converter, value, schema)]
    /\ UNCHANGED <<substitutions, commands, classDict, libs, pending>>

NextBuiltins ==
    \/ ConverterToSchema
    \/ \E value \in {JStr(text) : text \in DateTexts} \cup {JInt(5)},
          schema \in FormatVariants(last.fragment) : ConverterFromSchema(value, schema)

SpecBuiltins == InitBuiltins /\ [][NextBuiltins]_vars

(***************************************************************************)
(* GPTFunctionLibrary.convert_args(function_name, function_args), called   *)
(* by a caller that keeps the mapping it passed.                           *)
(***************************************************************************)
V_user == JStr(<<"<", "@", "1", "2", ">">>)

V_word == JStr(<<"h", "i">>)

\* the mappings convert_args is given: for find_user, get_time and
\* get_current_weather, complete and partial, with values that pass and
\* values that fail
ConvertInputs ==
    {Payload("find_user", ArgVal(JObj((P_user :> V_user) @@ (P_n :> V_word)))),
     Payload("find_user", ArgVal(JObj((P_user :> V_user) @@ (P_n :> JInt(2))))),
     Payload("find_user", ArgVal(JObj((P_user :> JInt(2)) @@ (P_n :> JInt(2))))),
     Payload("find_user", ArgVal(JObj(P_n :> JInt(1)))),
     Payload("get_time", ArgVal(JObj((P_comment :> V_word) @@ (P_n :> V_word)))),
     Payload("get_time", ArgVal(JObj((P_comment :> JInt(1)) @@ (P_n :> V_word)))),
     Payload("get_time", ArgVal(M_comment)),
     Payload("get_user", ArgVal(JObj(P_user :> V_user))),
     Payload("get_current_weather",
             ArgVal(JObj((P_location :> V_word) @@ (P_unit :> V_word)))),
     Payload("nope", ArgVal(M_comment))}

\* the caller's mapping before the call is kept in value, the mapping as
\* the call leaves it in arguments, what the call returns in result
ConvertArgs(lib, function_name, function_args) ==
    /\ Idle
    /\ lib \in 1..Len(libs)
    /\ LET FunctionDict == libs[lib].FunctionDict IN
       last' = [NoLast EXCEPT
                  !.op = "convert_args", !.lib = lib, !.name = function_name,
                  !.value = function_args,
                  !.arguments =
                     IF function_name \in DictKeys(FunctionDict)
                     THEN ArgVal(convert_args(
                              commands[FunctionDict[DictGet(FunctionDict, function_name)].cmd],
                              function_args).function_args)
                     ELSE ArgVal(function_args),
                  !.result =
                     IF function_name \in DictKeys(FunctionDict)
                     THEN TheOne({
                            IF c.exc = ""
                            THEN Outcome("return", "", NoValue, <<>>, <<>>, c.function_args)
                            ELSE Raise(c.exc, <<>>, JNull)
                          : c \in {convert_args(
                              commands[FunctionDict[DictGet(FunctionDict, function_name)].cmd],
                              function_args)}})
                     ELSE Raise("KeyError", <<>>, JNull)]
    /\ UNCHANGED <<substitutions, commands, classDict, libs, pending>>

NextConvertArgs ==
    \/ \E t \in AddTypes, c \in AddConverters : AddConverter(t, c)
    \/ \E c \in Classes : DefineClass(c)
    \/ \E c \in Classes : NewLibrary(c)
    \/ \E lib \in 1..Len(libs), p \in ConvertInputs : ConvertArgs(lib, p.name, p.arguments.v)
    \/ \E cmd \in 1..Len(commands) : ParamIterate(cmd)
    \/ Discard

SpecConvertArgs == Init /\ [][NextConvertArgs]_vars

(***************************************************************************)
(* The two dict-based dispatch entrypoints alone.                          *)
(***************************************************************************)
NextDispatch ==
    \/ \E t \in AddTypes, c \in AddConverters : AddConverter(t, c)
    \/ \E c \in Classes : DefineClass(c)
    \/ \E c \in Classes : NewLibrary(c)
    \/ \E cmd \in 1..Len(commands), b \in BOOLEAN : SetEnabled(cmd, b)
    \/ \E lib \in 1..Len(libs), p \in Payloads : CallByDict(lib, p.name, p.arguments)
    \/ \E lib \in 1..Len(libs), p \in Payloads : CallByDictAsync(lib, p.name, p.arguments)
    \/ \E cmd \in 1..Len(commands) : ParamIterate(cmd)
    \/ Discard

SpecDispatch == Init /\ [][NextDispatch]_vars

(***************************************************************************)
(* Every dispatch and query entrypoint of a library, under the registry as *)
(* it is after import.                                                     *)
(***************************************************************************)
NextAll ==
    \/ \E c \in Classes : DefineClass(c)
    \/ \E c \in Classes : NewLibrary(c)
    \/ \E cmd \in 1..Len(commands), b \in BOOLEAN : SetEnabled(cmd, b)
    \/ \E lib \in 1..Len(libs), p \in Payloads : ParseNameArgs(lib, p.name, p.arguments)
    \/ \E lib \in 1..Len(libs), p \in Payloads : CallByDict(lib, p.name, p.arguments)
    \/ \E lib \in 1..Len(libs), p \in Payloads : CallByDictAsync(lib, p.name, p.arguments)
    \/ \E lib \in 1..Len(libs) : GetSchema(lib)
    \/ \E lib \in 1..Len(libs) : GetToolSchema(lib)
    \/ \E lib \in 1..Len(libs), q \in Queries : ForceWordCheck(lib, q)
    \/ \E lib \in 1..Len(libs), t \in ToolCalls : CallByTool(lib, t)
    \/ \E lib \in 1..Len(libs), t \in ToolCalls : CallByToolAsync(lib, t)
    \/ \E cmd \in 1..Len(commands) : ParamIterate(cmd)
    \/ Discard

SpecAll == Init /\ [][NextAll]_vars

(***************************************************************************)
(* Properties.                                                             *)
(***************************************************************************)
IsCall == last.op \in {"call_by_dict", "call_by_dict_async"}

\* the FunctionDict of the library the last operation was made on
LastDict == libs[last.lib].FunctionDict

Known == last.name \in DictKeys(LastDict)

\* the descriptor the last payload names
LastCmd == commands[LastDict[DictGet(LastDict, last.name)].cmd]

\* the argument text as the decoder sees it
Repaired(s) == expression_match(QuoteEscapeFix(ReplaceNewlines(s)))

\* the parameter of handler h named p
ParamOf(h, p) == h.params[CHOOSE i \in 1..Len(h.params) : h.params[i].name = p]

\* C1: a dispatch of a well-formed payload with an unknown name, its
\* arguments a string or a mapping, returns a text that contains
\* "is not a valid function", raises nothing and invokes no handler.
C1_UnknownNameReturnsFallback ==
    (IsCall /\ ~Known /\ (last.arguments.k = "str" \/ last.arguments.v.t = "obj"))
      => /\ last.result.outcome = "return"
         /\ last.result.value.k = "text"
         /\ InSeq(" is not a valid function.", last.result.value.parts)
         /\ last.result.calls = <<>>

\* C2: call_by_dict on a synchronous command with an argument string that is
\* a valid JSON object whose fields satisfy the schema returns the value of
\* the handler, called once with the converted arguments as keywords.
C2_ValidObjectReturnsHandlerValue ==
    (/\ last.op = "call_by_dict"
     /\ Known
     /\ last.arguments.k = "str"
     /\ LastCmd.comm_type = "callable"
     /\ json_loads(last.arguments.s).ok
     /\ json_loads(last.arguments.s).val.t = "obj"
     /\ convert_args(LastCmd, json_loads(last.arguments.s).val).exc = ""
     /\ Binds(HandlerOf(LastCmd.command),
              convert_args(LastCmd, json_loads(last.arguments.s).val).function_args.o))
      => LET kwargs == convert_args(LastCmd, json_loads(last.arguments.s).val).function_args.o
             h == HandlerOf(LastCmd.command)
         IN  /\ last.result.outcome = "return"
             /\ last.result.value = HandlerReturn(h, kwargs)
             /\ last.result.calls = <<[func |-> h.pyname, kwargs |-> kwargs]>>

\* C3: when a supplied value fails validation during a dispatch, the dispatch
\* returns the text of the ConversionFromError instead of raising, and the
\* handler is not invoked.
C3_ConversionErrorReturned ==
    (/\ IsCall
     /\ Known
     /\ LastCmd.comm_type = "callable"
     /\ parse_name_args(LastDict, last.name, last.arguments).exc = ""
     /\ convert_args(LastCmd,
            parse_name_args(LastDict, last.name, last.arguments).function_args).exc
          = "ConversionFromError")
      => /\ last.result.outcome = "return"
         /\ last.result.value.k = "text"
         /\ last.result.calls = <<>>

\* C4: for a known name and an argument string that does not decode after
\* the repair, parse_name_args fails with ArgDecodeError and nothing else,
\* and the dispatch returns the text of that error instead of raising.
C4_DecodeFailureIsArgDecodeError ==
    (/\ last.op \in {"parse_name_args", "call_by_dict", "call_by_dict_async"}
     /\ Known
     /\ last.arguments.k = "str"
     /\ ~json_loads(Repaired(last.arguments.s)).ok)
      => /\ last.op = "parse_name_args" => last.parsed.exc = "ArgDecodeError"
         /\ IsCall => (last.result.outcome = "return" /\ last.result.value.k = "text")

\* C5: the parser looks at the name first: for an unknown name it fails with
\* FunctionNotFound that carries the attempted name and the raw arguments,
\* also when the argument string is malformed.
C5_NameCheckedBeforeArguments ==
    (last.op = "parse_name_args" /\ ~Known)
      => /\ last.parsed.exc = "FunctionNotFound"
         /\ last.parsed.function_name = last.name
         /\ last.parsed.arguments = last.arguments

\* an unknown name met a string that does not decode
C5_Witness ==
    /\ last.op = "parse_name_args"
    /\ ~Known
    /\ last.arguments.k = "str"
    /\ ~json_loads(Repaired(last.arguments.s)).ok
    /\ last.parsed.exc = "FunctionNotFound"

\* C6: in both entrypoints and for synchronous and coroutine commands alike,
\* a handler is invoked only after parse and then convert_args completed.
C6_ConvertBeforeInvoke ==
    (IsCall /\ last.result.calls # <<>>)
      => last.result.steps = <<"parse", "convert", "invoke">>

\* one step keeps every binding of the registry, and an add_converter step
\* either adds a binding for an absent name or fails without a write
C7_Step ==
    /\ \A t \in DOMAIN substitutions :
          t \in DOMAIN substitutions' /\ substitutions'[t] = substitutions[t]
    /\ (last'.op = "add_converter" /\ last'.typename \in DOMAIN substitutions)
          => (last'.exc = "ConversionAddError" /\ substitutions' = substitutions)
    /\ (last'.op = "add_converter" /\ last'.typename \notin DOMAIN substitutions)
          => (last'.exc = "" /\ substitutions'[last'.typename] = last'.converter)

\* C7: add_converter for a type name that is in the registry raises
\* ConversionAddError and leaves the registry as it was; every type name
\* keeps the converter it was first bound to.
C7_FirstBindingKept == [][C7_Step]_vars

\* a second registration for a custom type, with another converter, was
\* rejected and the first converter is still bound
C7_Witness ==
    /\ last.op = "add_converter"
    /\ last.exc = "ConversionAddError"
    /\ last.typename \notin DOMAIN BuiltinSubstitutions
    /\ substitutions[last.typename] # last.converter

\* the fragment that converter conv generates for property p of command cmd
FragmentBy(cmd, p, conv) ==
    LET h     == HandlerOf(cmd.command)
        param == ParamOf(h, p)
    IN  parameter_into_schema((param.annotation.name :> conv), p, param,
                              MapGet(h.parameter_decorators, p, DecStr(""))).param_info

CustomConverters == AddConverters \ {BuiltinSubstitutions[t] : t \in DOMAIN BuiltinSubstitutions}

\* C8: a handler declared after add_converter succeeded for its parameter
\* type has a schema property made by the custom to_schema, and a dispatch
\* passes the handler the custom from_schema result, not the raw value.
C8_CustomConverterRoundTrip ==
    /\ \A i \in 1..Len(commands) : \A p \in DOMAIN commands[i].param_converters :
          commands[i].param_converters[p] \in CustomConverters
            => commands[i].function_schema.parameters.properties[p]
                 = FragmentBy(commands[i], p, commands[i].param_converters[p])
    /\ (IsCall /\ last.result.calls # <<>>)
          => \A p \in DOMAIN LastCmd.param_converters \cap DOMAIN last.result.calls[1].kwargs :
               LastCmd.param_converters[p] \in CustomConverters
                 => last.result.calls[1].kwargs[p]
                      = from_schema(LastCmd.param_converters[p],
                            parse_name_args(LastDict, last.name, last.arguments).function_args.o[p],
                            LastCmd.function_schema.parameters.properties[p]).val

\* the bound converters of a descriptor are the keys of its properties, and
\* each fragment is the one the bound converter generates
C9_Bound(cmd) ==
    LET parameters == cmd.function_schema.parameters IN
    /\ DOMAIN cmd.param_converters = DOMAIN parameters.properties
    /\ {parameters.order[k] : k \in 1..Len(parameters.order)} = DOMAIN parameters.properties
    /\ Cardinality(DOMAIN parameters.properties) = Len(parameters.order)
    /\ \A p \in DOMAIN parameters.properties :
          /\ cmd.param_converters[p] # "None"
          /\ parameters.properties[p] = FragmentBy(cmd, p, cmd.param_converters[p])

\* a dispatch that converted replaced each supplied field by the value the
\* bound converter gives for it
C9_Validated ==
    (IsCall /\ InSeq("convert", last.result.steps))
      => LET raw == parse_name_args(LastDict, last.name, last.arguments).function_args IN
         raw.t = "obj" =>
           \A p \in DOMAIN LastCmd.function_schema.parameters.properties \cap DOMAIN raw.o :
              last.result.function_args.o[p]
                = from_schema(LastCmd.param_converters[p], raw.o[p],
                              LastCmd.function_schema.parameters.properties[p]).val

C9_Inv == (\A i \in 1..Len(commands) : C9_Bound(commands[i])) /\ C9_Validated

\* descriptors are never removed, and a step of a registration, a dispatch
\* or any operation other than a new call of param_iterate on the
\* descriptor keeps their schema and converters
C9_Step ==
    /\ Len(commands') >= Len(commands)
    /\ \/ \A i \in 1..Len(commands) :
             /\ commands'[i].param_converters = commands[i].param_converters
             /\ commands'[i].function_schema = commands[i].function_schema
       \/ \E cmd \in 1..Len(commands) : ParamIterate(cmd)

\* C9: in every descriptor the parameters with a bound converter are the
\* keys of the schema properties, each fragment is the one its bound
\* converter generates, convert_args validates with that converter, and
\* neither the bindings nor the schema change in a later registration or
\* dispatch.
C9_ConvertersFixed == []C9_Inv /\ [][C9_Step]_vars

\* a custom converter is registered and a dispatch converted a field of a
\* descriptor with the converter bound to it
C9_Witness ==
    /\ IsCall
    /\ last.result.steps = <<"parse", "convert", "invoke">>
    /\ DOMAIN LastCmd.param_converters \cap DOMAIN last.result.function_args.o # {}
    /\ DOMAIN substitutions # DOMAIN BuiltinSubstitutions

\* the entries of a FunctionDict whose command get_schema has to list
Listed(cmds, entry) ==
    /\ cmds[entry.cmd].enabled
    /\ "parameters" \in DOMAIN cmds[entry.cmd].function_schema
    /\ DOMAIN cmds[entry.cmd].function_schema.parameters # {}

\* C10: get_schema returns, in the order of the mapping, exactly the schema
\* documents of the commands that are enabled and have a non-empty
\* parameters object; a disabled command is never in the result.
C10_SchemaOfEnabledInOrder ==
    last.op = "get_schema"
      => LET listed == SelectSeq(LastDict, LAMBDA e : Listed(commands, e)) IN
         /\ Len(last.schema) = Len(listed)
         /\ \A i \in 1..Len(listed) :
               last.schema[i] = commands[listed[i].cmd].function_schema
         /\ \A i \in 1..Len(LastDict) :
               ~commands[LastDict[i].cmd].enabled
                 => ~InSeq(commands[LastDict[i].cmd].function_schema, last.schema)

\* get_schema left a disabled command out and listed two enabled ones
C10_Witness ==
    /\ last.op = "get_schema"
    /\ \E i \in 1..Len(LastDict) : ~commands[LastDict[i].cmd].enabled
    /\ Len(last.schema) >= 2

\* C11: get_tool_schema returns what get_schema returns in the same state,
\* each document s replaced by {type: "function", function: s}: the same
\* length, order and documents.
C11_ToolSchemaWrapsSchema ==
    last.op = "get_tool_schema"
      => LET documents == get_schema(LastDict, commands) IN
         /\ Len(last.tools) = Len(documents)
         /\ \A i \in 1..Len(documents) :
               last.tools[i] = [type |-> "function", function |-> documents[i]]

\* get_tool_schema listed two commands and left a disabled one out
C11_Witness ==
    /\ last.op = "get_tool_schema"
    /\ Len(last.tools) >= 2
    /\ \E i \in 1..Len(LastDict) : ~commands[LastDict[i].cmd].enabled

\* the entries of the last library whose command check_force accepts the text
Matching(text) ==
    {i \in 1..Len(LastDict) : check_force(commands[LastDict[i].cmd], text)}

\* C12: force_word_check returns the envelope of the first command, in the
\* order of the mapping, whose check_force accepts the text, and nothing
\* when no command accepts it; a later matching command never wins.
C12_EarliestForcedCommandWins ==
    last.op = "force_word_check"
      => IF Matching(last.query) = {} THEN last.forced.none
         ELSE /\ ~last.forced.none
              /\ last.forced.tools =
                   <<[type |-> "function",
                      function |->
                        commands[LastDict[Min(Matching(last.query))].cmd].function_schema]>>

\* the text held force words of two commands of the library
C12_Witness ==
    /\ last.op = "force_word_check"
    /\ Cardinality(Matching(last.query)) >= 2
    /\ ~last.forced.none

\* C13: a parameter in the schema properties of a command is in the required
\* list if and only if it has no default or is in the forced-required list.
C13_RequiredIffNoDefaultOrForced ==
    \A i \in 1..Len(commands) :
       LET cmd == commands[i]
           parameters == cmd.function_schema.parameters
       IN  \A p \in DOMAIN parameters.properties :
              InSeq(p, parameters.required)
                <=> \/ ParamOf(HandlerOf(cmd.command), p).default = "empty"
                    \/ InSeq(p, cmd.required)

\* the properties of cmd that have a default, forced or not forced
Defaulted(cmd, forced) ==
    {p \in DOMAIN cmd.function_schema.parameters.properties :
        /\ ParamOf(HandlerOf(cmd.command), p).default # "empty"
        /\ InSeq(p, cmd.required) = forced}

\* descriptors exist with a defaulted parameter that is forced and with one
\* that is not
C13_Witness ==
    /\ \E i \in 1..Len(commands) : Defaulted(commands[i], TRUE) # {}
    /\ \E i \in 1..Len(commands) : Defaulted(commands[i], FALSE) # {}

\* the parameters of handler h after the implicit first one
DeclaredParams(h) == {h.params[i] : i \in 2..Len(h.params)}

\* C14 as stated: a parameter without an entry in the parameter metadata of
\* its handler never appears in the schema properties.
C14_NoMetadataNeverInSchema ==
    \A i \in 1..Len(commands) :
       \A param \in DeclaredParams(HandlerOf(commands[i].command)) :
          param.name \notin DOMAIN HandlerOf(commands[i].command).parameter_decorators
            => param.name \notin DOMAIN commands[i].function_schema.parameters.properties

\* C14, amended: a parameter appears in the schema properties only if the
\* handler has parameter metadata and the type of the parameter is in the
\* registry, and always if the handler has metadata and the type is built
\* in; its own metadata plays no part, a parameter without an entry only
\* lacks a description text.
C14_SchemaFollowsTypeNotMetadata ==
    \A i \in 1..Len(commands) :
       LET h == HandlerOf(commands[i].command)
           properties == commands[i].function_schema.parameters.properties
       IN  \A param \in DeclaredParams(h) :
              /\ param.name \in DOMAIN properties
                   => h.has_decorators /\ param.annotation.name \in DOMAIN substitutions
              /\ (h.has_decorators /\ param.annotation.name \in DOMAIN BuiltinSubstitutions)
                   => param.name \in DOMAIN properties
              /\ (param.name \in DOMAIN properties
                    /\ param.name \notin DOMAIN h.parameter_decorators)
                   => MapGet(properties[param.name], "description", FW("")).w = ""

\* a descriptor has a property for a parameter without metadata
C14_Witness ==
    \E i \in 1..Len(commands) :
       \E p \in DOMAIN commands[i].function_schema.parameters.properties :
          p \notin DOMAIN HandlerOf(commands[i].command).parameter_decorators

\* the descriptors the mapping of library i refers to
Descriptors(i) == {libs[i].FunctionDict[k].cmd : k \in 1..Len(libs[i].FunctionDict)}

\* C16: no two library instances refer to the same descriptor in their
\* mappings.
C16_DescriptorsOwnedByOneInstance ==
    \A i, j \in 1..Len(libs) : i # j => Descriptors(i) \cap Descriptors(j) = {}

\* C17: call_by_tool and call_by_tool_async return a message with role
\* "tool", the name of the tool call and as content the result of the dict
\* entrypoint for the same name and arguments; the message has a
\* tool_call_id if and only if the tool call object has an id, and then it
\* is that id.  What the dict entrypoint raises, they raise.
C17_ToolMessageOfDictResult ==
    last.op \in {"call_by_tool", "call_by_tool_async"}
      => LET f == last.tool_call.function
             r == IF last.op = "call_by_tool"
                  THEN call_by_dict(LastDict, commands, f.name, f.arguments)
                  ELSE call_by_dict_async(LastDict, commands, f.name, f.arguments)
         IN  IF r.outcome = "raise"
             THEN last.tool.outcome = "raise" /\ last.tool.exc = r.exc
             ELSE /\ last.tool.outcome = "return"
                  /\ last.tool.message.role = "tool"
                  /\ last.tool.message.name = f.name
                  /\ last.tool.message.content = r.value
                  /\ last.tool.message.keys \subseteq {"role", "name", "content", "tool_call_id"}
                  /\ "tool_call_id" \in last.tool.message.keys <=> last.tool_call.has_id
                  /\ last.tool_call.has_id
                       => last.tool.message.tool_call_id = last.tool_call.id

\* a tool call without an id got the value of a handler in a message
\* without tool_call_id
C17_Witness ==
    /\ last.op \in {"call_by_tool", "call_by_tool_async"}
    /\ ~last.tool_call.has_id
    /\ last.tool.outcome = "return"
    /\ last.tool.message.content.k = "ret"
    /\ "tool_call_id" \notin last.tool.message.keys

\* the raw arguments of the last dispatch, as the parser returned them
RawArgs == parse_name_args(LastDict, last.name, last.arguments).function_args

\* C18: convert_args replaces the value of the keys that are both schema
\* properties and keys of the raw mapping by the from_schema result of the
\* bound converter; it adds no key and leaves the other keys as they were.
C18_ConvertArgsFrame ==
    (IsCall /\ InSeq("convert", last.result.steps) /\ RawArgs.t = "obj")
      => LET properties == LastCmd.function_schema.parameters.properties
             converted == last.result.function_args
         IN  /\ converted.t = "obj"
             /\ DOMAIN converted.o = DOMAIN RawArgs.o
             /\ \A k \in DOMAIN RawArgs.o :
                   converted.o[k] =
                     IF k \in DOMAIN properties
                     THEN from_schema(LastCmd.param_converters[k], RawArgs.o[k],
                                      properties[k]).val
                     ELSE RawArgs.o[k]

\* a dispatch converted a mapping that has one schema property and lacks
\* another
C18_Witness ==
    /\ IsCall
    /\ InSeq("convert", last.result.steps)
    /\ RawArgs.t = "obj"
    /\ DOMAIN LastCmd.function_schema.parameters.properties \cap DOMAIN RawArgs.o # {}
    /\ DOMAIN LastCmd.function_schema.parameters.properties \ DOMAIN RawArgs.o # {}

\* the names under which class cls declares its handlers
DeclaredNames(cls) ==
    {IF h.name # "" THEN h.name ELSE h.pyname :
        h \in {ClassBody[cls][k] : k \in 1..Len(ClassBody[cls])}}

\* the step adds an entry to or removes one from the mapping of instance lib
EditOf(lib) ==
    \/ \E name \in EntryNames, cmd \in EntryCommands(commands) : AddEntry(lib, name, cmd)
    \/ \E name \in EntryNames : RemoveEntry(lib, name)

\* what one step may do to the mappings: an added or removed entry changes
\* the mapping of the instance it was made on and no other; a construction
\* changes no mapping and gives the new instance the handlers of its class
\* and nothing else
C15_Step ==
    /\ Len(libs') >= Len(libs)
    /\ \A j \in 1..Len(libs) :
          \/ libs'[j].FunctionDict = libs[j].FunctionDict
          \/ /\ EditOf(j)
             /\ \A k \in 1..Len(libs) :
                   k = j \/ libs'[k].FunctionDict = libs[k].FunctionDict
    /\ Len(libs') > Len(libs)
         => LET d == libs'[Len(libs')].FunctionDict IN
            /\ DictKeys(d) = DeclaredNames(libs'[Len(libs')].cls)
            /\ \A k \in 1..Len(d) :
                  LET h == HandlerOf(commands[d[k].cmd].command) IN
                  /\ d[k].name = (IF h.name # "" THEN h.name ELSE h.pyname)
                  /\ InSeq(h, ClassBody[libs'[Len(libs')].cls])

\* C15: every instance has a mapping of its own, built from exactly the
\* decorated handlers of its class; constructing further instances and
\* adding or removing entries on one instance change no other instance's
\* mapping.
C15_MappingsIndependent == [][C15_Step]_vars

\* one of two instances of one class had an entry added or removed, and the
\* other still has the mapping its constructor built
C15_Witness ==
    /\ Len(libs) = 2
    /\ libs[1].cls = libs[2].cls
    /\ \E i, j \in 1..2 :
          /\ i # j
          /\ Edited(libs, i) # {}
          /\ libs[j].FunctionDict = Constructed(libs, j)
          /\ libs[j].FunctionDict # libs[i].FunctionDict

\* the first constraint, in the order of the checks, that value n violates
\* in fragment schema; "" when it violates none
FirstViolated(n, schema) ==
    IF "minimum" \in DOMAIN schema /\ ~(n >= schema["minimum"].n) THEN "minimum"
    ELSE IF "maximum" \in DOMAIN schema /\ ~(n <= schema["maximum"].n) THEN "maximum"
    ELSE IF "exclusiveMinimum" \in DOMAIN schema /\ ~(n > schema["exclusiveMinimum"].n)
         THEN "exclusiveMinimum"
    ELSE IF "exclusiveMaximum" \in DOMAIN schema /\ ~(n < schema["exclusiveMaximum"].n)
         THEN "exclusiveMaximum"
    ELSE IF "multipleOf" \in DOMAIN schema
              /\ ~(\E q \in (0 - MaxNum)..MaxNum : q * schema["multipleOf"].n = n)
         THEN "multipleOf"
    ELSE ""

\* the ValueError text of each constraint
ConstraintMessage ==
    ("minimum" :> "Value is below the minimum constraint.")
      @@ ("maximum" :> "Value exceeds the maximum constraint.")
      @@ ("exclusiveMinimum" :> "Value does not meet the exclusiveMinimum constraint.")
      @@ ("exclusiveMaximum" :> "Value does not meet the exclusiveMaximum constraint.")
      @@ ("multipleOf" :> "Value does not meet the multipleOf constraint.")

\* C19: NumericConverter.from_schema of an integer returns the value
\* unchanged if and only if the value satisfies every constraint key of the
\* fragment (minimum and maximum inclusive, exclusiveMinimum and
\* exclusiveMaximum strict, multipleOf an integer multiple), and otherwise
\* raises the validation error of the first violated constraint.
C19_NumericValidation ==
    last.op = "from_schema"
      => LET violated == FirstViolated(last.value.n, last.fragment) IN
         IF violated = ""
         THEN last.converted.ok /\ last.converted.val = last.value
         ELSE /\ ~last.converted.ok
              /\ last.converted.exc = "ValueError"
              /\ last.converted.msg = ConstraintMessage[violated]

\* C20: StringConverter.to_schema of a parameter without a declared default
\* gives minLength 0 and maxLength 255 when the metadata has neither, and
\* the values of the metadata when it has them.
C20_StringLengthDefaults ==
    (last.op = "to_schema" /\ last.param.default = "empty")
      => /\ MapGet(last.fragment, "minLength", FW("absent"))
              = MapGet(last.dec, "minLength", FN(0))
         /\ MapGet(last.fragment, "maxLength", FW("absent"))
              = MapGet(last.dec, "maxLength", FN(255))

\* the dispatch and query operations
DispatchOps == {"parse_name_args", "call_by_dict", "call_by_dict_async", "get_schema",
                "get_tool_schema", "force_word_check", "call_by_tool",
                "call_by_tool_async"}

C23_Step == last'.op \in DispatchOps => UNCHANGED <<libs, commands>>

\* C23: a step made by a dispatch or query operation leaves the mapping of
\* every library and every descriptor (schema document, required list,
\* converter bindings, enabled flag) as they were, whatever its outcome.
C23_DispatchChangesNoDescriptor == [][C23_Step]_vars

\* a dispatch raised in a library one of whose descriptors had its enabled
\* flag assigned
C23_Witness ==
    /\ last.op \in {"call_by_tool", "call_by_tool_async"}
    /\ last.tool.outcome = "raise"
    /\ Toggled(commands) # {}

\* C24: parse_name_args of a known name and an argument string that is a
\* valid JSON object returns the mapping that decoding the string as given
\* yields, and does not fail.
C24_RepairKeepsValidObjects ==
    (/\ last.op = "parse_name_args"
     /\ Known
     /\ last.arguments.k = "str"
     /\ json_loads(last.arguments.s).ok
     /\ json_loads(last.arguments.s).val.t = "obj")
      => /\ last.parsed.exc = ""
         /\ last.parsed.function_args = json_loads(last.arguments.s).val

\* C25: in every descriptor the required list has no duplicates and holds
\* only keys of the schema properties; a forced-required name without a
\* property is not in it.
C25_RequiredWithinProperties ==
    \A i \in 1..Len(commands) :
       LET parameters == commands[i].function_schema.parameters IN
       /\ \A k \in 1..Len(parameters.required) :
             parameters.required[k] \in DOMAIN parameters.properties
       /\ \A k, m \in 1..Len(parameters.required) :
             parameters.required[k] = parameters.required[m] => k = m

\* the forced-required names of descriptor cmd that name a parameter whose
\* type did not resolve, and those that name no parameter
ForcedUnresolved(cmd) ==
    {cmd.required[k] : k \in 1..Len(cmd.required)}
       \cap (ParamNames(HandlerOf(cmd.command))
               \ DOMAIN cmd.function_schema.parameters.properties)

ForcedUnknown(cmd) ==
    {cmd.required[k] : k \in 1..Len(cmd.required)} \ ParamNames(HandlerOf(cmd.command))

\* a descriptor was built with a forced-required name whose type did not
\* resolve and with one that names no parameter, and another with a
\* forced-required name that is in its schema
C25_Witness ==
    /\ \E i \in 1..Len(commands) :
          ForcedUnresolved(commands[i]) # {} /\ ForcedUnknown(commands[i]) # {}
    /\ \E i \in 1..Len(commands) :
          \E k \in 1..Len(commands[i].required) :
             InSeq(commands[i].required[k], commands[i].function_schema.parameters.required)

\* the descriptors with every enabled flag set
AllEnabled(cmds) == [i \in 1..Len(cmds) |-> [cmds[i] EXCEPT !.enabled = TRUE]]

\* the entrypoint named op, on the payload of the last operation
Dispatch(op, cmds) ==
    IF op = "call_by_dict"
    THEN call_by_dict(LastDict, cmds, last.name, last.arguments)
    ELSE call_by_dict_async(LastDict, cmds, last.name, last.arguments)

\* C26: a call that names a disabled command has the outcome it would have
\* were the command enabled: the same steps, handler invocation, converted
\* arguments and result.
C26_DispatchIgnoresEnabled ==
    (IsCall /\ Known /\ ~LastCmd.enabled)
       => last.result = Dispatch(last.op, AllEnabled(commands))

\* a disabled command, absent from get_schema and get_tool_schema, was
\* parsed, converted and invoked
C26_Witness ==
    /\ IsCall /\ Known /\ ~LastCmd.enabled
    /\ last.result.steps = <<"parse", "convert", "invoke">>
    /\ last.result.function_args # RawArgs
    /\ ~InSeq(LastCmd.function_schema, get_schema(LastDict, commands))
    /\ ~InSeq(ToolEnvelope(LastCmd.function_schema), get_tool_schema(LastDict, commands))
    /\ InSeq(LastCmd.function_schema, get_schema(LastDict, AllEnabled(commands)))

\* C28: call_by_dict on a known coroutine command whose arguments parse
\* raises AttributeError after the parse step alone, with the arguments as
\* parsed and no handler invocation; a coroutine handler runs under
\* call_by_dict_async only.
C28_SyncRejectsCoroutine ==
    (IsCall /\ Known /\ LastCmd.comm_type = "coroutine")
       => /\ last.result.calls # <<>> => last.op = "call_by_dict_async"
          /\ (last.op = "call_by_dict"
                /\ parse_name_args(LastDict, last.name, last.arguments).exc = "")
               => last.result = Raise("AttributeError", <<"parse">>, RawArgs)

\* call_by_dict refused a coroutine command although its arguments parsed
\* and bind to the handler
C28_Witness ==
    /\ IsCall /\ Known /\ LastCmd.comm_type = "coroutine"
    /\ last.op = "call_by_dict"
    /\ last.result.exc = "AttributeError"
    /\ RawArgs.t = "obj"
    /\ Binds(HandlerOf(LastCmd.command), RawArgs.o)

\* C29: a call records at most one handler invocation, that of the handler
\* the payload names, and none when it returns a text (the fallback or a
\* parser error) or raises before the invoke step.
C29_HandlerInvokedAtMostOnce ==
    IsCall
       => /\ Len(last.result.calls) <= 1
          /\ last.result.calls # <<>>
               => Known /\ last.result.calls[1].func = LastCmd.command
          /\ (last.result.value.k = "text"
                \/ (last.result.outcome = "raise" /\ ~InSeq("invoke", last.result.steps)))
               => last.result.calls = <<>>

\* a handler ran once in a library that holds other commands, and its
\* call came back
C29_Witness ==
    /\ IsCall /\ Known
    /\ Len(last.result.calls) = 1
    /\ Len(LastDict) > 1
    /\ last.result.outcome = "return"

\* C30: for an unknown name or a synchronous command the two entrypoints
\* have the same outcome on the same library state.
C30_AsyncAgreesWithSync ==
    (IsCall /\ (Known => LastCmd.comm_type = "callable"))
       => last.result = Dispatch(IF last.op = "call_by_dict" THEN "call_by_dict_async"
                                 ELSE "call_by_dict", commands)

\* call_by_dict_async converted the arguments of a synchronous command and
\* invoked it
C30_Witness ==
    /\ last.op = "call_by_dict_async" /\ Known
    /\ LastCmd.comm_type = "callable"
    /\ last.result.steps = <<"parse", "convert", "invoke">>
    /\ last.result.function_args # RawArgs

\* the schema properties of descriptor cmd, in order, up to but without
\* the first one whose value in function_args fails validation
RECURSIVE PassedFrom(_, _, _)
PassedFrom(cmd, function_args, i) ==
    LET parameters == cmd.function_schema.parameters IN
    IF i > Len(parameters.order) THEN <<>>
    ELSE LET p == parameters.order[i] IN
         IF p \in DOMAIN function_args.o
              /\ ~schema_validate(p, function_args.o[p], parameters.properties[p],
                                  cmd.param_converters[p]).ok
         THEN <<>>
         ELSE <<p>> \o PassedFrom(cmd, function_args, i + 1)

\* the value of key k after convert_args when exactly the properties in
\* passed were converted
AfterConvert(cmd, function_args, passed, k) ==
    IF InSeq(k, passed)
    THEN schema_validate(k, function_args.o[k], cmd.function_schema.parameters.properties[k],
                         cmd.param_converters[k]).val
    ELSE function_args.o[k]

\* C27: after convert_args on a mapping, the caller's mapping has the keys
\* it had; the schema properties before the first failing field hold their
\* converted values, the failing field and everything else their raw
\* values; the call returns the caller's mapping when no field fails and
\* raises ConversionFromError otherwise.
C27_ConvertArgsInPlace ==
    (last.op = "convert_args" /\ Known /\ last.value.t = "obj")
       => LET passed == PassedFrom(LastCmd, last.value, 1)
              after  == last.arguments.v
          IN  /\ after.t = "obj"
              /\ DOMAIN after.o = DOMAIN last.value.o
              /\ \A k \in DOMAIN after.o :
                    after.o[k] = AfterConvert(LastCmd, last.value, passed, k)
              /\ IF Len(passed) = Len(LastCmd.function_schema.parameters.order)
                 THEN last.result.outcome = "return" /\ last.result.function_args = after
                 ELSE last.result.outcome = "raise"
                        /\ last.result.exc = "ConversionFromError"

\* convert_args failed at a later field after it had replaced the value of
\* an earlier one in the caller's mapping
C27_Witness ==
    /\ last.op = "convert_args" /\ Known
    /\ last.result.exc = "ConversionFromError"
    /\ \E k \in DOMAIN last.value.o : last.arguments.v.o[k] # last.value.o[k]
    /\ \E k \in DOMAIN last.value.o : last.arguments.v.o[k] = last.value.o[k]

\* the constraint keys each built-in converter takes from the metadata
KnownKeys ==
    [c \in DOMAIN BuiltinParams |->
       CASE c \in {"StringConverter", "DatetimeConverter"} -> {"minLength", "maxLength", "pattern"}
         [] c = "NumericConverter" ->
              {"minimum", "maximum", "exclusiveMinimum", "exclusiveMaximum", "multipleOf"}
         [] c = "ArrayConverter" -> {"minItems", "maxItems", "uniqueItems"}
         [] OTHER -> {}]

\* the keys a fragment of each built-in converter is made of
SchemaShape ==
    [c \in DOMAIN BuiltinParams |->
       KnownKeys[c] \cup {"type", "description"}
         \cup (CASE c = "DatetimeConverter" -> {"format"}
                 [] c = "ArrayConverter" -> {"items", "prefixItems"}
                 [] c = "LiteralConverter" -> {"enum"}
                 [] OTHER -> {})]

\* C21: the fragment a built-in converter returns holds the known
\* constraint keys of the metadata with the values of the metadata, and no
\* key outside the shape of the converter's schema.
C21_KnownKeysCopiedUnknownIgnored ==
    last.op = "converter_to_schema"
      => /\ \A k \in KnownKeys[last.converter] \cap DOMAIN last.dec :
               k \in DOMAIN last.fragment /\ last.fragment[k] = last.dec[k]
         /\ DOMAIN last.fragment \subseteq SchemaShape[last.converter]

\* C22: the fragment DatetimeConverter.to_schema generates has the format
\* date-time; from_schema returns a datetime, never the text, when the
\* value passes the string validation, the format of the fragment is
\* date-time and the text parses, and raises ValueError otherwise.
C22_DatetimeParsedOrRejected ==
    last.converter = "DatetimeConverter"
      => /\ last.op = "converter_to_schema"
              => MapGet(last.fragment, "format", FW("")) = FW("date-time")
         /\ last.op = "converter_from_schema"
              => IF /\ StringConverter_from_schema(last.value, last.fragment).ok
                    /\ MapGet(last.fragment, "format", FW("")) = FW("date-time")
                    /\ strptime(last.value.s).ok
                 THEN /\ last.converted.ok
                      /\ last.converted.val = JDatetime(strptime(last.value.s))
                      /\ last.converted.val # last.value
                 ELSE ~last.converted.ok /\ last.converted.exc = "ValueError"

\* the text of the documentation was converted under a generated fragment:
\* its date is 2018-11-13
C22_Witness ==
    /\ last.op = "converter_from_schema"
    /\ last.value = JStr(D_example)
    /\ last.fragment = DatetimeConverter_to_schema(last.param, last.dec)
    /\ last.converted.ok
    /\ last.converted.val.t = "datetime"
    /\ last.converted.val.o["year"] = JInt(2018)
    /\ last.converted.val.o["month"] = JInt(11)
    /\ last.converted.val.o["day"] = JInt(13)

====
